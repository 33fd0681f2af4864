--------------------------- MODULE L2CacheProofs ---------------------------
(***************************************************************************)
(* For any number of blocks, ways, MSHR entries and requests, all queue    *)
(* sizes and every policy: what is fetched matches its MSHR entry and its  *)
(* reserved line, every request is answered once, and no modified line is  *)
(* dropped.                                                                *)
(*                                                                         *)
(* The requests are in eight containers.  A stage of a cycle moves one     *)
(* from a container to another (Loses, Gains), so that a token, which says *)
(* what to look for in each container, stays at one place (Once) or at     *)
(* none (Never).  There is a token for every request, and one for every    *)
(* fetch, which is below the cache exactly while it is in fetching.        *)
(***************************************************************************)
EXTENDS L2Cache, FiniteSetTheorems, WellFoundedInduction, TLAPS

Statuses == {"reserved", "valid", "modified"}

CacheLines == [block : Blocks, status : Statuses]

\* The cache's own fetches have no id, and only they.
Fetches == {m \in AllFetches : m.id = 0 <=> m.kind \in {"alloc", "evict"}}

Arriving  == {m \in Fetches : m.kind \in {"read", "write", "wrbk"}}
Waiting   == {m \in Fetches : m.kind \in {"read", "alloc"}}
Returning == {m \in Fetches : m.kind \in {"read", "write", "alloc"}}
Answers   == {m \in Fetches : m.kind \in {"read", "write"}}

Tables == UNION {[D -> Seq(Waiting) \ {<<>>}] : D \in SUBSET Blocks}

SubPartitions ==
  [icnt : Seq(Arriving), lines : Seq(CacheLines), mshr : Tables,
   ready : Seq(Blocks), fetching : SUBSET Waiting, miss : Seq(Fetches),
   toDram : Seq(Fetches), fromDram : Seq(Returning), reply : Seq(Answers),
   tracked : SUBSET (1 .. MaxRequests)]

\* The lines of the set are of different blocks.
SetOfLines(s) ==
  /\ Len(s.lines) <= Ways
  /\ \A i, j \in 1 .. Len(s.lines) :
       s.lines[i].block = s.lines[j].block => i = j

IsReserved(s, b) ==
  \E i \in 1 .. Len(s.lines) :
    s.lines[i].block = b /\ s.lines[i].status = "reserved"

Reserves(s) == \A m \in s.fetching : IsReserved(s, m.block)

\* Every entry is ready or being fetched, and its first request is the one
\* that was sent.
Matches(s) ==
  /\ \A m \in s.fetching : m.block \in DOMAIN s.mshr
  /\ \A m \in s.fetching : s.mshr[m.block][1] = m
  /\ \A i, j \in 1 .. Len(s.ready) : s.ready[i] = s.ready[j] => i = j
  /\ \A i \in 1 .. Len(s.ready) : s.ready[i] \in DOMAIN s.mshr
  /\ \A i \in 1 .. Len(s.ready) : \A m \in s.fetching : s.ready[i] # m.block
  /\ \A b \in DOMAIN s.mshr :
       \/ \E i \in 1 .. Len(s.ready) : s.ready[i] = b
       \/ \E m \in s.fetching : m.block = b

Limits(s) ==
  /\ IsFiniteSet(DOMAIN s.mshr)
  /\ Cardinality(DOMAIN s.mshr) <= Entries
  /\ \A b \in DOMAIN s.mshr : Len(s.mshr[b]) <= maxMerged

Sizes(s) ==
  /\ Len(s.icnt) <= QueueSize
  /\ Len(s.toDram) <= QueueSize
  /\ Len(s.fromDram) <= QueueSize
  /\ Len(s.reply) <= QueueSize
  /\ Len(s.miss) <= MissSize

-----------------------------------------------------------------------------
(* Containers and tokens.                                                  *)

\* Container q, a function from places to what is there, holds a member of C.
Has(q, C) == \E p \in DOMAIN q : q[p] \in C

Single(q, C) == \A p, r \in DOMAIN q : q[p] \in C /\ q[r] \in C => p = r

EntryPlaces(f) == UNION {{b} \X (1 .. Len(f[b])) : b \in DOMAIN f}

\* All requests in MSHR entries.
Merged(f) == [p \in EntryPlaces(f) |-> f[p[1]][p[2]]]

\* A set as a container.
Loose(d) == [m \in d |-> m]

Containers(s, d, e) ==
  <<s.icnt, Merged(s.mshr), s.miss, s.toDram, Loose(d), s.fromDram, s.reply, e>>

Named(n) == {m \in Arriving : m.id = n}

WritesNamed(n) == {m \in Arriving : m.id = n /\ m.kind # "read"}

RequestToken(n) == <<Named(n), Named(n), WritesNamed(n), WritesNamed(n),
                     WritesNamed(n), WritesNamed(n), Named(n), {n}>>

FetchToken(m) == <<{}, {}, {m}, {m}, {m}, {m}, {}, {}>>

Once(c, t) ==
  /\ \A h \in 1 .. 8 : Single(c[h], t[h])
  /\ \E h \in 1 .. 8 : Has(c[h], t[h])
  /\ \A g, h \in 1 .. 8 : Has(c[g], t[g]) /\ Has(c[h], t[h]) => g = h

Never(c, t) == \A h \in 1 .. 8 : ~Has(c[h], t[h])

\* Fetches in f are below the cache, once, and no others; requests up to a
\* are at one place each, and those not yet made nowhere.
Placed(c, f, a) ==
  /\ \A m \in f : Once(c, FetchToken(m))
  /\ \A m \in Waiting \ f : Never(c, FetchToken(m))
  /\ \A n \in 1 .. a : Once(c, RequestToken(n))
  /\ \A n \in (a + 1) .. MaxRequests : Never(c, RequestToken(n))

Tracks(s, e, a) == s.tracked = 1 .. a \ {e[i] : i \in 1 .. Len(e)}

Sound(s, d, e, a) ==
  /\ s \in SubPartitions
  /\ SetOfLines(s)
  /\ Reserves(s)
  /\ Matches(s)
  /\ Limits(s)
  /\ Sizes(s)
  /\ Placed(Containers(s, d, e), s.fetching, a)
  /\ Tracks(s, e, a)

IInv ==
  /\ maxMerged \in MergeLimits /\ writeHit \in WriteHits
  /\ writeAllocate \in Allocations
  /\ asked \in 0 .. MaxRequests
  /\ dram \in SUBSET Fetches
  /\ ended \in Seq(1 .. MaxRequests)
  /\ Sound(sp, dram, ended, asked)

-----------------------------------------------------------------------------
(* Sequences, and the containers.                                          *)

LEMMA TailOf ==
  ASSUME NEW S, NEW q \in Seq(S), q # <<>>
  PROVE  /\ Tail(q) \in Seq(S) /\ Len(Tail(q)) = Len(q) - 1 /\ Len(q) >= 1
         /\ Head(q) = q[1] /\ q[1] \in S /\ DOMAIN Tail(q) = 1 .. (Len(q) - 1)
         /\ \A i \in 1 .. (Len(q) - 1) : Tail(q)[i] = q[i + 1]
OBVIOUS

LEMMA AppendOf ==
  ASSUME NEW S, NEW q \in Seq(S), NEW x \in S
  PROVE  /\ Append(q, x) \in Seq(S) /\ Len(Append(q, x)) = Len(q) + 1
         /\ Append(q, x)[Len(q) + 1] = x /\ Len(q) \in Nat
         /\ DOMAIN Append(q, x) = 1 .. (Len(q) + 1)
         /\ \A i \in 1 .. Len(q) : Append(q, x)[i] = q[i]
OBVIOUS

LEMMA RemoveOf ==
  ASSUME NEW S, NEW q \in Seq(S), NEW k \in 1 .. Len(q)
  PROVE  /\ RemoveAt(q, k) \in Seq(S) /\ Len(RemoveAt(q, k)) = Len(q) - 1
         /\ \A i \in 1 .. (Len(q) - 1) :
              RemoveAt(q, k)[i] = q[IF i < k THEN i ELSE i + 1]
<1> PICK n \in Nat : n = Len(q)
  OBVIOUS
<1>1. /\ SubSeq(q, 1, k - 1) \in Seq(S) /\ Len(SubSeq(q, 1, k - 1)) = k - 1
      /\ \A i \in 1 .. (k - 1) : SubSeq(q, 1, k - 1)[i] = q[i]
  OBVIOUS
<1>2. /\ SubSeq(q, k + 1, n) \in Seq(S) /\ Len(SubSeq(q, k + 1, n)) = n - k
      /\ \A i \in 1 .. (n - k) : SubSeq(q, k + 1, n)[i] = q[i + k]
  OBVIOUS
<1> HIDE DEF RemoveAt
<1> DEFINE f == SubSeq(q, 1, k - 1)
           g == SubSeq(q, k + 1, n)
<1>3. RemoveAt(q, k) = f \o g
  BY DEF RemoveAt
<1> HIDE DEF f, g
<1>4. f \in Seq(S) /\ g \in Seq(S) /\ Len(f) = k - 1 /\ Len(g) = n - k
  BY <1>1, <1>2 DEF f, g
<1>5. f \o g \in Seq(S) /\ Len(f \o g) = n - 1
  BY <1>4
<1>6. ASSUME NEW i \in 1 .. (n - 1) PROVE (f \o g)[i] = q[IF i < k THEN i ELSE i + 1]
  <2>1. CASE i < k
    <3>1. (f \o g)[i] = f[i]
      BY <1>4, <2>1
    <3>2. f[i] = q[i]
      BY <1>1, <2>1 DEF f
    <3> QED BY <3>1, <3>2, <2>1
  <2>2. CASE ~(i < k)
    <3>1. (f \o g)[i] = g[i - (k - 1)]
      BY <1>4, <2>2
    <3>2. g[i - (k - 1)] = q[i - (k - 1) + k]
      BY <1>2, <2>2 DEF g
    <3>3. i - (k - 1) + k = i + 1
      OBVIOUS
    <3> QED BY <3>1, <3>2, <3>3, <2>2
  <2> QED BY <2>1, <2>2
<1> QED BY <1>3, <1>5, <1>6

-----------------------------------------------------------------------------
(* Containers.                                                             *)

\* Container r holds what q holds but for one x.
Loses(q, r, x) == \A C :
  /\ Has(q, C) <=> x \in C \/ Has(r, C)
  /\ Single(q, C) => Single(r, C) /\ (x \in C => ~Has(r, C))

\* Container r holds x as well.
Gains(q, r, x) == \A C :
  /\ Has(r, C) <=> x \in C \/ Has(q, C)
  /\ Single(q, C) /\ (x \in C => ~Has(q, C)) => Single(r, C)

LEMMA TailLoses ==
  ASSUME NEW S, NEW q \in Seq(S), q # <<>>
  PROVE  Loses(q, Tail(q), Head(q))
<1> DEFINE r == Tail(q)
<1>1. Len(q) \in Nat
  OBVIOUS
<1>2. /\ DOMAIN q = 1 .. Len(q) /\ DOMAIN r = 1 .. (Len(q) - 1) /\ Head(q) = q[1]
      /\ Len(q) >= 1 /\ \A i \in 1 .. (Len(q) - 1) : r[i] = q[i + 1]
  BY TailOf
<1> PICK n \in Nat : n = Len(q)
  BY <1>1
<1> PICK x : x = Head(q)
  OBVIOUS
<1> HIDE DEF r
<1>3. /\ DOMAIN q = 1 .. n /\ DOMAIN r = 1 .. (n - 1) /\ q[1] = x
      /\ n >= 1 /\ \A i \in 1 .. (n - 1) : r[i] = q[i + 1]
  BY <1>2
<1> SUFFICES ASSUME NEW C
             PROVE  /\ Has(q, C) <=> x \in C \/ Has(r, C)
                    /\ Single(q, C) => Single(r, C) /\ (x \in C => ~Has(r, C))
  BY DEF Loses, r
<1>4. ASSUME Has(q, C) PROVE x \in C \/ Has(r, C)
  <2>1. PICK i \in 1 .. n : q[i] \in C
    BY <1>3, <1>4 DEF Has
  <2>2. CASE i = 1
    BY <1>3, <2>1, <2>2
  <2>3. CASE i # 1
    <3>1. i - 1 \in 1 .. (n - 1) /\ (i - 1) + 1 = i
      BY <2>3
    <3>2. r[i - 1] = q[i]
      BY <1>3, <3>1
    <3> QED BY <1>3, <2>1, <3>1, <3>2 DEF Has
  <2> QED BY <2>2, <2>3
<1>5. ASSUME Has(r, C) PROVE \E i \in 1 .. (n - 1) : q[i + 1] \in C /\ r[i] \in C
  BY <1>3, <1>5 DEF Has
<1>6. x \in C \/ Has(r, C) => Has(q, C)
  <2>1. CASE x \in C
    <3>1. 1 \in 1 .. n
      BY <1>3
    <3> QED BY <1>3, <2>1, <3>1 DEF Has
  <2>2. CASE Has(r, C)
    <3>1. PICK i \in 1 .. (n - 1) : q[i + 1] \in C
      BY <1>5, <2>2
    <3>2. i + 1 \in 1 .. n
      OBVIOUS
    <3> QED BY <1>3, <3>1, <3>2 DEF Has
  <2> QED BY <2>1, <2>2
<1>7. ASSUME Single(q, C) PROVE Single(r, C) /\ (x \in C => ~Has(r, C))
  <2>1. \A i, j \in 1 .. n : q[i] \in C /\ q[j] \in C => i = j
    BY <1>3, <1>7 DEF Single
  <2>2. ASSUME NEW i \in 1 .. (n - 1), NEW j \in 1 .. (n - 1), r[i] \in C, r[j] \in C
        PROVE  i = j
    <3>1. i + 1 \in 1 .. n /\ j + 1 \in 1 .. n
      OBVIOUS
    <3>2. q[i + 1] \in C /\ q[j + 1] \in C
      BY <1>3, <2>2
    <3>3. i + 1 = j + 1
      BY <2>1, <3>1, <3>2
    <3> QED BY <3>3
  <2>3. Single(r, C)
    BY <1>3, <2>2 DEF Single
  <2>4. ASSUME x \in C, Has(r, C) PROVE FALSE
    <3>1. PICK i \in 1 .. (n - 1) : q[i + 1] \in C
      BY <1>5, <2>4
    <3>2. i + 1 \in 1 .. n /\ 1 \in 1 .. n
      OBVIOUS
    <3>3. i + 1 = 1
      BY <1>3, <2>1, <2>4, <3>1, <3>2
    <3> QED BY <3>3
  <2> QED BY <2>3, <2>4
<1> QED BY <1>4, <1>6, <1>7

\* A container with one more place holds what is there.
LEMMA OneMore ==
  ASSUME NEW q, NEW r, NEW p, NEW x, p \notin DOMAIN q,
         DOMAIN r = DOMAIN q \cup {p}, r[p] = x, \A i \in DOMAIN q : r[i] = q[i]
  PROVE  Gains(q, r, x)
<1> SUFFICES ASSUME NEW C
             PROVE  /\ Has(r, C) <=> x \in C \/ Has(q, C)
                    /\ Single(q, C) /\ (x \in C => ~Has(q, C)) => Single(r, C)
  BY DEF Gains
<1>1. Has(r, C) <=> x \in C \/ Has(q, C)
  BY DEF Has
<1>2. ASSUME Single(q, C), x \in C => ~Has(q, C) PROVE Single(r, C)
  <2> SUFFICES ASSUME NEW i \in DOMAIN r, NEW j \in DOMAIN r, r[i] \in C, r[j] \in C
               PROVE  i = j
    BY DEF Single
  <2>1. CASE i \in DOMAIN q /\ j \in DOMAIN q
    BY <1>2, <2>1 DEF Single
  <2>2. CASE i = p \/ j = p
    BY <1>2, <2>2 DEF Has
  <2> QED BY <2>1, <2>2
<1> QED BY <1>1, <1>2

\* Without the place, what was there is gone.
LEMMA OneLess ==
  ASSUME NEW q, NEW r, NEW p, NEW x, p \in DOMAIN q, q[p] = x,
         DOMAIN r = DOMAIN q \ {p}, \A i \in DOMAIN r : r[i] = q[i]
  PROVE  Loses(q, r, x)
<1> SUFFICES ASSUME NEW C
             PROVE  /\ Has(q, C) <=> x \in C \/ Has(r, C)
                    /\ Single(q, C) => Single(r, C) /\ (x \in C => ~Has(r, C))
  BY DEF Loses
<1>1. Has(q, C) <=> x \in C \/ Has(r, C)
  BY DEF Has
<1>2. Single(q, C) => Single(r, C) /\ (x \in C => ~Has(r, C))
  BY DEF Has, Single
<1> QED BY <1>1, <1>2

LEMMA AppendGains ==
  ASSUME NEW S, NEW q \in Seq(S), NEW x \in S
  PROVE  Gains(q, Append(q, x), x)
<1> DEFINE r == Append(q, x)
<1>1. /\ r[Len(q) + 1] = x /\ Len(q) \in Nat /\ DOMAIN r = 1 .. (Len(q) + 1)
      /\ DOMAIN q = 1 .. Len(q) /\ \A i \in 1 .. Len(q) : r[i] = q[i]
  BY AppendOf
<1> PICK n \in Nat : n = Len(q)
  BY <1>1
<1> HIDE DEF r
<1>2. n + 1 \notin DOMAIN q
  BY <1>1
<1>3. DOMAIN r = DOMAIN q \cup {n + 1}
  BY <1>1
<1>4. Gains(q, r, x)
  BY OneMore, <1>1, <1>2, <1>3
<1> QED BY <1>4 DEF r

\* A request is taken from a set, or put into it.
LEMMA LooseLoses ==
  ASSUME NEW d, NEW m \in d
  PROVE  Loses(Loose(d), Loose(d \ {m}), m)
BY OneLess DEF Loose

LEMMA LooseGains ==
  ASSUME NEW d, NEW m, m \notin d
  PROVE  Gains(Loose(d), Loose(d \cup {m}), m)
BY OneMore DEF Loose

\* The MSHR entries hold what one of them holds.
LEMMA MergedHas ==
  ASSUME NEW f, NEW C, \A b \in DOMAIN f : DOMAIN f[b] = 1 .. Len(f[b])
  PROVE  /\ Has(Merged(f), C) <=> \E b \in DOMAIN f : Has(f[b], C)
         /\ Single(Merged(f), C) <=>
              /\ \A b \in DOMAIN f : Single(f[b], C)
              /\ \A b, c \in DOMAIN f : Has(f[b], C) /\ Has(f[c], C) => b = c
<1>1. DOMAIN Merged(f) = EntryPlaces(f)
  BY DEF Merged
<1>2. \A b \in DOMAIN f : \A i \in DOMAIN f[b] :
        <<b, i>> \in EntryPlaces(f) /\ Merged(f)[<<b, i>>] = f[b][i]
  BY DEF Merged, EntryPlaces
<1>3. \A p \in EntryPlaces(f) : \E b \in DOMAIN f : \E i \in DOMAIN f[b] :
        p = <<b, i>> /\ Merged(f)[p] = f[b][i]
  BY DEF Merged, EntryPlaces
<1>4. Has(Merged(f), C) <=> \E b \in DOMAIN f : Has(f[b], C)
  <2>1. ASSUME Has(Merged(f), C) PROVE \E b \in DOMAIN f : Has(f[b], C)
    <3>1. PICK p \in EntryPlaces(f) : Merged(f)[p] \in C
      BY <1>1, <2>1 DEF Has
    <3> QED BY <1>3, <3>1 DEF Has
  <2>2. ASSUME NEW b \in DOMAIN f, Has(f[b], C) PROVE Has(Merged(f), C)
    <3>1. PICK i \in DOMAIN f[b] : f[b][i] \in C
      BY <2>2 DEF Has
    <3> QED BY <1>1, <1>2, <3>1 DEF Has
  <2> QED BY <2>1, <2>2
<1>5. ASSUME Single(Merged(f), C)
      PROVE  /\ \A b \in DOMAIN f : Single(f[b], C)
             /\ \A b, c \in DOMAIN f : Has(f[b], C) /\ Has(f[c], C) => b = c
  <2>1. ASSUME NEW b \in DOMAIN f, NEW c \in DOMAIN f, NEW i \in DOMAIN f[b],
               NEW j \in DOMAIN f[c], f[b][i] \in C, f[c][j] \in C
        PROVE  b = c /\ i = j
    <3>1. <<b, i>> = <<c, j>>
      BY <1>1, <1>2, <1>5, <2>1 DEF Single
    <3> QED BY <3>1
  <2> QED BY <2>1 DEF Single, Has
<1>6. ASSUME \A b \in DOMAIN f : Single(f[b], C),
             \A b, c \in DOMAIN f : Has(f[b], C) /\ Has(f[c], C) => b = c
      PROVE  Single(Merged(f), C)
  <2> SUFFICES ASSUME NEW p \in EntryPlaces(f), NEW r \in EntryPlaces(f),
                      Merged(f)[p] \in C, Merged(f)[r] \in C
               PROVE  p = r
    BY <1>1 DEF Single
  <2>1. PICK b \in DOMAIN f : \E i \in DOMAIN f[b] : p = <<b, i>> /\ f[b][i] \in C
    BY <1>3
  <2>2. PICK c \in DOMAIN f : \E i \in DOMAIN f[c] : r = <<c, i>> /\ f[c][i] \in C
    BY <1>3
  <2>3. b = c
    BY <1>6, <2>1, <2>2 DEF Has
  <2> QED BY <1>6, <2>1, <2>2, <2>3 DEF Single
<1> QED BY <1>4, <1>5, <1>6

LEMMA EmptyHas ==
  ASSUME NEW C
  PROVE  ~Has(<<>>, C) /\ Single(<<>>, C)
BY DEF Has, Single

\* An entry, an empty one included, gets a request.
LEMMA EntryGains ==
  ASSUME NEW f, NEW g, NEW b, NEW x,
         \A c \in DOMAIN f : DOMAIN f[c] = 1 .. Len(f[c]),
         \A c \in DOMAIN g : DOMAIN g[c] = 1 .. Len(g[c]),
         DOMAIN g = DOMAIN f \cup {b},
         \A c \in DOMAIN f : c # b => g[c] = f[c],
         Gains(IF b \in DOMAIN f THEN f[b] ELSE <<>>, g[b], x)
  PROVE  Gains(Merged(f), Merged(g), x)
<1> PICK q : q = IF b \in DOMAIN f THEN f[b] ELSE <<>>
  OBVIOUS
<1>1. Gains(q, g[b], x)
  OBVIOUS
<1> SUFFICES ASSUME NEW C
             PROVE  /\ Has(Merged(g), C) <=> x \in C \/ Has(Merged(f), C)
                    /\ Single(Merged(f), C) /\ (x \in C => ~Has(Merged(f), C))
                         => Single(Merged(g), C)
  BY DEF Gains
<1>2. Has(g[b], C) <=> x \in C \/ Has(q, C)
  BY <1>1 DEF Gains
<1>3. Single(q, C) /\ (x \in C => ~Has(q, C)) => Single(g[b], C)
  BY <1>1 DEF Gains
<1>4. Has(q, C) => b \in DOMAIN f /\ Has(f[b], C)
  BY EmptyHas
<1>5. b \in DOMAIN f => q = f[b]
  OBVIOUS
<1>6. b \notin DOMAIN f => Single(q, C)
  BY EmptyHas
<1>7. /\ Has(Merged(f), C) <=> \E c \in DOMAIN f : Has(f[c], C)
      /\ Single(Merged(f), C) <=>
           /\ \A c \in DOMAIN f : Single(f[c], C)
           /\ \A c, d \in DOMAIN f : Has(f[c], C) /\ Has(f[d], C) => c = d
  BY MergedHas
<1>8. /\ Has(Merged(g), C) <=> \E c \in DOMAIN g : Has(g[c], C)
      /\ Single(Merged(g), C) <=>
           /\ \A c \in DOMAIN g : Single(g[c], C)
           /\ \A c, d \in DOMAIN g : Has(g[c], C) /\ Has(g[d], C) => c = d
  BY MergedHas
<1> HIDE DEF Has, Single
<1>9. Has(Merged(g), C) <=> x \in C \/ Has(Merged(f), C)
  BY <1>2, <1>4, <1>5, <1>7, <1>8
<1>10. ASSUME Single(Merged(f), C), x \in C => ~Has(Merged(f), C)
       PROVE  Single(Merged(g), C)
  <2>1. Single(q, C)
    BY <1>5, <1>6, <1>7, <1>10
  <2>2. x \in C => ~Has(q, C)
    BY <1>4, <1>7, <1>10
  <2>3. \A c \in DOMAIN g : Single(g[c], C)
    BY <1>3, <1>7, <1>10, <2>1, <2>2
  <2>4. \A c, d \in DOMAIN g : Has(g[c], C) /\ Has(g[d], C) => c = d
    BY <1>2, <1>4, <1>5, <1>7, <1>10
  <2> QED BY <1>8, <2>3, <2>4
<1> QED BY <1>9, <1>10

\* An entry loses a request, and is released when it has no other.
LEMMA EntryLoses ==
  ASSUME NEW f, NEW g, NEW b \in DOMAIN f, NEW q, NEW x,
         \A c \in DOMAIN f : DOMAIN f[c] = 1 .. Len(f[c]),
         \A c \in DOMAIN g : DOMAIN g[c] = 1 .. Len(g[c]),
         DOMAIN g = IF q = <<>> THEN DOMAIN f \ {b} ELSE DOMAIN f,
         \A c \in DOMAIN g : g[c] = IF c = b THEN q ELSE f[c],
         Loses(f[b], q, x)
  PROVE  Loses(Merged(f), Merged(g), x)
<1> SUFFICES ASSUME NEW C
             PROVE  /\ Has(Merged(f), C) <=> x \in C \/ Has(Merged(g), C)
                    /\ Single(Merged(f), C) =>
                         /\ Single(Merged(g), C)
                         /\ x \in C => ~Has(Merged(g), C)
  BY DEF Loses
<1>1. Has(f[b], C) <=> x \in C \/ Has(q, C)
  BY DEF Loses
<1>2. Single(f[b], C) => Single(q, C) /\ (x \in C => ~Has(q, C))
  BY DEF Loses
<1>3. Has(q, C) => b \in DOMAIN g
  BY EmptyHas
<1>4. b \in DOMAIN g => g[b] = q
  OBVIOUS
<1>5. \A c \in DOMAIN f : c # b => c \in DOMAIN g /\ g[c] = f[c]
  OBVIOUS
<1>6. \A c \in DOMAIN g : c \in DOMAIN f
  OBVIOUS
<1>7. /\ Has(Merged(f), C) <=> \E c \in DOMAIN f : Has(f[c], C)
      /\ Single(Merged(f), C) <=>
           /\ \A c \in DOMAIN f : Single(f[c], C)
           /\ \A c, d \in DOMAIN f : Has(f[c], C) /\ Has(f[d], C) => c = d
  BY MergedHas
<1>8. /\ Has(Merged(g), C) <=> \E c \in DOMAIN g : Has(g[c], C)
      /\ Single(Merged(g), C) <=>
           /\ \A c \in DOMAIN g : Single(g[c], C)
           /\ \A c, d \in DOMAIN g : Has(g[c], C) /\ Has(g[d], C) => c = d
  BY MergedHas
<1>9. b \in DOMAIN f
  OBVIOUS
<1>10. ASSUME Has(Merged(f), C) PROVE x \in C \/ Has(Merged(g), C)
  <2>1. PICK c \in DOMAIN f : Has(f[c], C)
    BY <1>7, <1>10
  <2> QED BY <2>1, <1>1, <1>3, <1>4, <1>5, <1>8
<1>11. ASSUME Has(Merged(g), C) PROVE Has(Merged(f), C)
  <2>1. PICK c \in DOMAIN g : Has(g[c], C)
    BY <1>8, <1>11
  <2> QED BY <2>1, <1>1, <1>4, <1>5, <1>6, <1>7
<1>12. x \in C => Has(Merged(f), C)
  BY <1>1, <1>7
<1>13. ASSUME Single(Merged(f), C)
       PROVE  Single(Merged(g), C) /\ (x \in C => ~Has(Merged(g), C))
  <2>1. \A c \in DOMAIN g : Single(g[c], C)
    BY <1>2, <1>4, <1>5, <1>6, <1>7, <1>13
  <2>2. \A c \in DOMAIN g : Has(g[c], C) => Has(f[c], C)
    BY <1>1, <1>4, <1>5, <1>6
  <2>3. \A c, d \in DOMAIN g : Has(g[c], C) /\ Has(g[d], C) => c = d
    BY <1>6, <1>7, <1>13, <2>2
  <2>4. ASSUME x \in C, Has(Merged(g), C) PROVE FALSE
    <3>1. PICK c \in DOMAIN g : Has(g[c], C)
      BY <1>8, <2>4
    <3>2. c = b
      BY <1>1, <1>6, <1>7, <1>13, <2>2, <2>4, <3>1
    <3> QED BY <1>2, <1>4, <1>7, <1>13, <2>4, <3>1, <3>2
  <2> QED BY <1>8, <2>1, <2>3, <2>4
<1> QED BY <1>10, <1>11, <1>12, <1>13

-----------------------------------------------------------------------------
(* Tokens.                                                                 *)

\* The other containers are left alone.
Others(c, k, g, h) == \A i \in 1 .. 8 : i # g /\ i # h => k[i] = c[i]

LEMMA TransferOnce ==
  ASSUME NEW c, NEW k, NEW t, NEW g \in 1 .. 8, NEW h \in 1 .. 8, g # h,
         NEW x, NEW y, Others(c, k, g, h),
         Loses(c[g], k[g], x), Gains(c[h], k[h], y), x \in t[g] <=> y \in t[h]
  PROVE  (Once(c, t) => Once(k, t)) /\ (Never(c, t) => Never(k, t))
<1>1. \A i \in 1 .. 8 : i # g /\ i # h => k[i] = c[i]
  BY DEF Others
<1>2. Has(c[g], t[g]) <=> x \in t[g] \/ Has(k[g], t[g])
  BY DEF Loses
<1>3. Single(c[g], t[g]) => Single(k[g], t[g]) /\ (x \in t[g] => ~Has(k[g], t[g]))
  BY DEF Loses
<1>4. Has(k[h], t[h]) <=> y \in t[h] \/ Has(c[h], t[h])
  BY DEF Gains
<1>5. Single(c[h], t[h]) /\ (y \in t[h] => ~Has(c[h], t[h])) => Single(k[h], t[h])
  BY DEF Gains
<1>6. ASSUME Once(c, t) PROVE Once(k, t)
  <2>1. \A i \in 1 .. 8 : Single(c[i], t[i])
    BY <1>6 DEF Once
  <2>2. PICK n \in 1 .. 8 : Has(c[n], t[n])
    BY <1>6 DEF Once
  <2>3. \A i \in 1 .. 8 : Has(c[i], t[i]) => i = n
    BY <1>6, <2>2 DEF Once
  <2>4. CASE x \in t[g]
    <3>1. n = g
      BY <1>2, <2>3, <2>4
    <3>2. Has(k[h], t[h]) /\ Single(k[h], t[h])
      BY <1>4, <1>5, <2>1, <2>3, <2>4, <3>1
    <3>3. ~Has(k[g], t[g]) /\ Single(k[g], t[g])
      BY <1>3, <2>1, <2>4
    <3>4. \A i \in 1 .. 8 : Has(k[i], t[i]) => i = h
      BY <1>1, <2>3, <3>1, <3>3
    <3>5. \A i \in 1 .. 8 : Single(k[i], t[i])
      BY <1>1, <2>1, <3>2, <3>3
    <3> QED BY <3>2, <3>4, <3>5 DEF Once
  <2>5. CASE x \notin t[g]
    <3>1. \A i \in 1 .. 8 : Has(k[i], t[i]) <=> Has(c[i], t[i])
      BY <1>1, <1>2, <1>4, <2>5
    <3>2. \A i \in 1 .. 8 : Single(k[i], t[i])
      BY <1>1, <1>3, <1>5, <2>1, <2>5
    <3> QED BY <3>1, <3>2, <2>2, <2>3 DEF Once
  <2> QED BY <2>4, <2>5
<1>7. ASSUME Never(c, t) PROVE Never(k, t)
  BY <1>1, <1>2, <1>4, <1>7 DEF Never
<1> QED BY <1>6, <1>7

\* One container loses, or gains, what the token does not look for.
LEMMA LosesOther ==
  ASSUME NEW c, NEW k, NEW t, NEW g \in 1 .. 8, NEW x, Others(c, k, g, g),
         Loses(c[g], k[g], x), x \notin t[g]
  PROVE  (Once(c, t) => Once(k, t)) /\ (Never(c, t) => Never(k, t))
<1>1. \A i \in 1 .. 8 : i # g => k[i] = c[i]
  BY DEF Others
<1>2. Has(c[g], t[g]) <=> Has(k[g], t[g])
  BY DEF Loses
<1>3. Single(c[g], t[g]) => Single(k[g], t[g])
  BY DEF Loses
<1>4. \A i \in 1 .. 8 : Has(k[i], t[i]) <=> Has(c[i], t[i])
  BY <1>1, <1>2
<1>5. \A i \in 1 .. 8 : Single(c[i], t[i]) => Single(k[i], t[i])
  BY <1>1, <1>3
<1> QED BY <1>4, <1>5 DEF Once, Never

LEMMA GainsOther ==
  ASSUME NEW c, NEW k, NEW t, NEW g \in 1 .. 8, NEW x, Others(c, k, g, g),
         Gains(c[g], k[g], x), x \notin t[g]
  PROVE  (Once(c, t) => Once(k, t)) /\ (Never(c, t) => Never(k, t))
<1>1. \A i \in 1 .. 8 : i # g => k[i] = c[i]
  BY DEF Others
<1>2. Has(c[g], t[g]) <=> Has(k[g], t[g])
  BY DEF Gains
<1>3. Single(c[g], t[g]) => Single(k[g], t[g])
  BY DEF Gains
<1>4. \A i \in 1 .. 8 : Has(k[i], t[i]) <=> Has(c[i], t[i])
  BY <1>1, <1>2
<1>5. \A i \in 1 .. 8 : Single(c[i], t[i]) => Single(k[i], t[i])
  BY <1>1, <1>3
<1> QED BY <1>4, <1>5 DEF Once, Never

\* What is nowhere is put somewhere, and what leaves is nowhere.
LEMMA GainsFirst ==
  ASSUME NEW c, NEW k, NEW t, NEW g \in 1 .. 8, NEW x, Others(c, k, g, g),
         Gains(c[g], k[g], x), x \in t[g], Never(c, t),
         \A i \in 1 .. 8 : Single(c[i], t[i])
  PROVE  Once(k, t)
<1>1. \A i \in 1 .. 8 : i # g => k[i] = c[i]
  BY DEF Others
<1>2. \A i \in 1 .. 8 : ~Has(c[i], t[i])
  BY DEF Never
<1>3. Has(k[g], t[g]) /\ Single(k[g], t[g])
  BY <1>2 DEF Gains
<1>4. \A i \in 1 .. 8 : Has(k[i], t[i]) => i = g
  BY <1>1, <1>2
<1>5. \A i \in 1 .. 8 : Single(k[i], t[i])
  BY <1>1, <1>3
<1> QED BY <1>3, <1>4, <1>5 DEF Once

LEMMA LosesLast ==
  ASSUME NEW c, NEW k, NEW t, NEW g \in 1 .. 8, NEW x, Others(c, k, g, g),
         Loses(c[g], k[g], x), x \in t[g], Once(c, t)
  PROVE  Never(k, t)
<1>1. \A i \in 1 .. 8 : i # g => k[i] = c[i]
  BY DEF Others
<1>2. Has(c[g], t[g]) /\ (Single(c[g], t[g]) => ~Has(k[g], t[g]))
  BY DEF Loses
<1>3. Single(c[g], t[g]) /\ \A i \in 1 .. 8 : Has(c[i], t[i]) => i = g
  BY <1>2 DEF Once
<1> QED BY <1>1, <1>2, <1>3 DEF Never

LEMMA NeverSingle ==
  ASSUME NEW c, NEW t, Never(c, t)
  PROVE  \A i \in 1 .. 8 : Single(c[i], t[i])
BY DEF Never, Has, Single

\* Request x of container g and y of container h count for the same tokens.
Passes(x, g, y, h) ==
  /\ \A m \in Waiting : x \in FetchToken(m)[g] <=> y \in FetchToken(m)[h]
  /\ \A n \in 1 .. MaxRequests : x \in RequestToken(n)[g] <=> y \in RequestToken(n)[h]

\* No token looks for x in container g.
Ignored(x, g) ==
  /\ \A m \in Waiting : x \notin FetchToken(m)[g]
  /\ \A n \in 1 .. MaxRequests : x \notin RequestToken(n)[g]

LEMMA PlacedTransfer ==
  ASSUME NEW c, NEW k, NEW f \in SUBSET Waiting, NEW a \in 0 .. MaxRequests,
         NEW g \in 1 .. 8, NEW h \in 1 .. 8, g # h, NEW x, NEW y,
         Others(c, k, g, h), Loses(c[g], k[g], x), Gains(c[h], k[h], y),
         Passes(x, g, y, h), Placed(c, f, a)
  PROVE  Placed(k, f, a)
<1>1. ASSUME NEW m \in f PROVE Once(k, FetchToken(m))
  <2>1. x \in FetchToken(m)[g] <=> y \in FetchToken(m)[h]
    BY DEF Passes
  <2>2. Once(c, FetchToken(m))
    BY DEF Placed
  <2> QED BY TransferOnce, <2>1, <2>2
<1>2. ASSUME NEW m \in Waiting \ f PROVE Never(k, FetchToken(m))
  <2>1. x \in FetchToken(m)[g] <=> y \in FetchToken(m)[h]
    BY DEF Passes
  <2>2. Never(c, FetchToken(m))
    BY DEF Placed
  <2> QED BY TransferOnce, <2>1, <2>2
<1>3. ASSUME NEW n \in 1 .. a PROVE Once(k, RequestToken(n))
  <2>1. n \in 1 .. MaxRequests
    BY L2Assumption
  <2>2. x \in RequestToken(n)[g] <=> y \in RequestToken(n)[h]
    BY <2>1 DEF Passes
  <2>3. Once(c, RequestToken(n))
    BY DEF Placed
  <2> QED BY TransferOnce, <2>2, <2>3
<1>4. ASSUME NEW n \in (a + 1) .. MaxRequests PROVE Never(k, RequestToken(n))
  <2>1. n \in 1 .. MaxRequests
    BY L2Assumption
  <2>2. x \in RequestToken(n)[g] <=> y \in RequestToken(n)[h]
    BY <2>1 DEF Passes
  <2>3. Never(c, RequestToken(n))
    BY DEF Placed
  <2> QED BY TransferOnce, <2>2, <2>3
<1> QED BY <1>1, <1>2, <1>3, <1>4 DEF Placed

\* A request moves from container g to container h, where it is x and y.
Moves(c, k, g, x, h, y) ==
  /\ Others(c, k, g, h) /\ g # h
  /\ Loses(c[g], k[g], x)
  /\ Gains(c[h], k[h], y)
  /\ Passes(x, g, y, h)

LEMMA PlacedMoves ==
  ASSUME NEW c, NEW k, NEW f \in SUBSET Waiting, NEW a \in 0 .. MaxRequests,
         NEW g \in 1 .. 8, NEW h \in 1 .. 8, NEW x, NEW y,
         Moves(c, k, g, x, h, y), Placed(c, f, a)
  PROVE  Placed(k, f, a)
BY PlacedTransfer DEF Moves

\* The tokens of one kind are kept when a container loses or gains what they
\* do not look for.
KeptFetches(c, k) == \A m \in Waiting :
  /\ Once(c, FetchToken(m)) => Once(k, FetchToken(m))
  /\ Never(c, FetchToken(m)) => Never(k, FetchToken(m))

KeptRequests(c, k) == \A n \in 1 .. MaxRequests :
  /\ Once(c, RequestToken(n)) => Once(k, RequestToken(n))
  /\ Never(c, RequestToken(n)) => Never(k, RequestToken(n))

LEMMA PlacedKept ==
  ASSUME NEW c, NEW k, NEW f \in SUBSET Waiting, NEW a \in 0 .. MaxRequests,
         KeptFetches(c, k), KeptRequests(c, k), Placed(c, f, a)
  PROVE  Placed(k, f, a)
<1>1. \A n \in 1 .. a : n \in 1 .. MaxRequests
  BY L2Assumption
<1>2. \A n \in (a + 1) .. MaxRequests : n \in 1 .. MaxRequests
  BY L2Assumption
<1>3. \A m \in f : Once(k, FetchToken(m))
  BY DEF Placed, KeptFetches
<1>4. \A m \in Waiting \ f : Never(k, FetchToken(m))
  BY DEF Placed, KeptFetches
<1>5. \A n \in 1 .. a : Once(k, RequestToken(n))
  BY <1>1 DEF Placed, KeptRequests
<1>6. \A n \in (a + 1) .. MaxRequests : Never(k, RequestToken(n))
  BY <1>2 DEF Placed, KeptRequests
<1> QED BY <1>3, <1>4, <1>5, <1>6 DEF Placed

LEMMA LosesKept ==
  ASSUME NEW c, NEW k, NEW g \in 1 .. 8, NEW x, Others(c, k, g, g),
         Loses(c[g], k[g], x)
  PROVE  /\ (\A m \in Waiting : x \notin FetchToken(m)[g]) => KeptFetches(c, k)
         /\ (\A n \in 1 .. MaxRequests : x \notin RequestToken(n)[g])
              => KeptRequests(c, k)
<1>1. ASSUME \A m \in Waiting : x \notin FetchToken(m)[g] PROVE KeptFetches(c, k)
  <2> SUFFICES ASSUME NEW m \in Waiting
               PROVE  /\ Once(c, FetchToken(m)) => Once(k, FetchToken(m))
                      /\ Never(c, FetchToken(m)) => Never(k, FetchToken(m))
    BY DEF KeptFetches
  <2>1. x \notin FetchToken(m)[g]
    BY <1>1
  <2> QED BY LosesOther, <2>1
<1>2. ASSUME \A n \in 1 .. MaxRequests : x \notin RequestToken(n)[g]
      PROVE  KeptRequests(c, k)
  <2> SUFFICES ASSUME NEW n \in 1 .. MaxRequests
               PROVE  /\ Once(c, RequestToken(n)) => Once(k, RequestToken(n))
                      /\ Never(c, RequestToken(n)) => Never(k, RequestToken(n))
    BY DEF KeptRequests
  <2>1. x \notin RequestToken(n)[g]
    BY <1>2
  <2> QED BY LosesOther, <2>1
<1> QED BY <1>1, <1>2

LEMMA GainsKept ==
  ASSUME NEW c, NEW k, NEW g \in 1 .. 8, NEW x, Others(c, k, g, g),
         Gains(c[g], k[g], x)
  PROVE  /\ (\A m \in Waiting : x \notin FetchToken(m)[g]) => KeptFetches(c, k)
         /\ (\A n \in 1 .. MaxRequests : x \notin RequestToken(n)[g])
              => KeptRequests(c, k)
<1>1. ASSUME \A m \in Waiting : x \notin FetchToken(m)[g] PROVE KeptFetches(c, k)
  <2> SUFFICES ASSUME NEW m \in Waiting
               PROVE  /\ Once(c, FetchToken(m)) => Once(k, FetchToken(m))
                      /\ Never(c, FetchToken(m)) => Never(k, FetchToken(m))
    BY DEF KeptFetches
  <2>1. x \notin FetchToken(m)[g]
    BY <1>1
  <2> QED BY GainsOther, <2>1
<1>2. ASSUME \A n \in 1 .. MaxRequests : x \notin RequestToken(n)[g]
      PROVE  KeptRequests(c, k)
  <2> SUFFICES ASSUME NEW n \in 1 .. MaxRequests
               PROVE  /\ Once(c, RequestToken(n)) => Once(k, RequestToken(n))
                      /\ Never(c, RequestToken(n)) => Never(k, RequestToken(n))
    BY DEF KeptRequests
  <2>1. x \notin RequestToken(n)[g]
    BY <1>2
  <2> QED BY GainsOther, <2>1
<1> QED BY <1>1, <1>2

LEMMA PlacedLoses ==
  ASSUME NEW c, NEW k, NEW f \in SUBSET Waiting, NEW a \in 0 .. MaxRequests,
         NEW g \in 1 .. 8, NEW x, Others(c, k, g, g), Loses(c[g], k[g], x),
         Ignored(x, g), Placed(c, f, a)
  PROVE  Placed(k, f, a)
<1>1. KeptFetches(c, k) /\ KeptRequests(c, k)
  BY LosesKept DEF Ignored
<1> QED BY PlacedKept, <1>1

LEMMA PlacedGains ==
  ASSUME NEW c, NEW k, NEW f \in SUBSET Waiting, NEW a \in 0 .. MaxRequests,
         NEW g \in 1 .. 8, NEW x, Others(c, k, g, g), Gains(c[g], k[g], x),
         Ignored(x, g), Placed(c, f, a)
  PROVE  Placed(k, f, a)
<1>1. KeptFetches(c, k) /\ KeptRequests(c, k)
  BY GainsKept DEF Ignored
<1> QED BY PlacedKept, <1>1

\* What the tokens look for.
LEMMA TokenParts ==
  ASSUME NEW m, NEW n
  PROVE  /\ FetchToken(m)[1] = {} /\ FetchToken(m)[2] = {}
         /\ FetchToken(m)[3] = {m} /\ FetchToken(m)[4] = {m}
         /\ FetchToken(m)[5] = {m} /\ FetchToken(m)[6] = {m}
         /\ FetchToken(m)[7] = {} /\ FetchToken(m)[8] = {}
         /\ RequestToken(n)[1] = Named(n) /\ RequestToken(n)[2] = Named(n)
         /\ RequestToken(n)[3] = WritesNamed(n) /\ RequestToken(n)[4] = WritesNamed(n)
         /\ RequestToken(n)[5] = WritesNamed(n) /\ RequestToken(n)[6] = WritesNamed(n)
         /\ RequestToken(n)[7] = Named(n) /\ RequestToken(n)[8] = {n}
BY DEF FetchToken, RequestToken

\* A fetch is sent, with the token of no request.
LEMMA PlacedSent ==
  ASSUME NEW c, NEW k, NEW f \in SUBSET Waiting, NEW a \in 0 .. MaxRequests,
         NEW x \in Waiting \ f, Others(c, k, 3, 3), Gains(c[3], k[3], x),
         Placed(c, f, a)
  PROVE  Placed(k, f \cup {x}, a)
<1>1. \A n \in 1 .. MaxRequests : x \notin RequestToken(n)[3]
  BY TokenParts DEF WritesNamed, Arriving, Waiting
<1>2. KeptRequests(c, k)
  BY GainsKept, <1>1
<1>3. ASSUME NEW m \in Waiting, m # x
      PROVE  /\ Once(c, FetchToken(m)) => Once(k, FetchToken(m))
             /\ Never(c, FetchToken(m)) => Never(k, FetchToken(m))
  <2>1. FetchToken(m)[3] = {m}
    BY TokenParts
  <2>2. x \notin FetchToken(m)[3]
    BY <1>3, <2>1
  <2>3. 3 \in 1 .. 8
    OBVIOUS
  <2> QED BY GainsOther, <2>2, <2>3
<1>4. Once(k, FetchToken(x))
  <2>1. Never(c, FetchToken(x))
    BY DEF Placed
  <2>2. \A i \in 1 .. 8 : Single(c[i], FetchToken(x)[i])
    BY NeverSingle, <2>1
  <2>3. x \in FetchToken(x)[3]
    BY TokenParts
  <2> QED BY GainsFirst, <2>1, <2>2, <2>3
<1>5. \A m \in f \cup {x} : Once(k, FetchToken(m))
  BY <1>3, <1>4 DEF Placed
<1>6. \A m \in Waiting \ (f \cup {x}) : Never(k, FetchToken(m))
  BY <1>3 DEF Placed
<1>7. \A n \in 1 .. a : n \in 1 .. MaxRequests
  BY L2Assumption
<1>8. \A n \in (a + 1) .. MaxRequests : n \in 1 .. MaxRequests
  BY L2Assumption
<1>9. \A n \in 1 .. a : Once(k, RequestToken(n))
  BY <1>2, <1>7 DEF Placed, KeptRequests
<1>10. \A n \in (a + 1) .. MaxRequests : Never(k, RequestToken(n))
  BY <1>2, <1>8 DEF Placed, KeptRequests
<1> QED BY <1>5, <1>6, <1>9, <1>10 DEF Placed

\* A fetch is filled.
LEMMA PlacedFilled ==
  ASSUME NEW c, NEW k, NEW f \in SUBSET Waiting, NEW a \in 0 .. MaxRequests,
         NEW x \in f, Others(c, k, 6, 6), Loses(c[6], k[6], x),
         Placed(c, f, a)
  PROVE  Placed(k, f \ {x}, a)
<1>1. \A n \in 1 .. MaxRequests : x \notin RequestToken(n)[6]
  BY TokenParts DEF WritesNamed, Arriving, Waiting
<1>2. KeptRequests(c, k)
  BY LosesKept, <1>1
<1>3. ASSUME NEW m \in Waiting, m # x
      PROVE  /\ Once(c, FetchToken(m)) => Once(k, FetchToken(m))
             /\ Never(c, FetchToken(m)) => Never(k, FetchToken(m))
  <2>1. FetchToken(m)[6] = {m}
    BY TokenParts
  <2>2. x \notin FetchToken(m)[6]
    BY <1>3, <2>1
  <2>3. 6 \in 1 .. 8
    OBVIOUS
  <2> QED BY LosesOther, <2>2, <2>3
<1>4. Never(k, FetchToken(x))
  <2>1. Once(c, FetchToken(x))
    BY DEF Placed
  <2>2. x \in FetchToken(x)[6]
    BY TokenParts
  <2> QED BY LosesLast, <2>1, <2>2
<1>5. \A m \in f \ {x} : Once(k, FetchToken(m))
  BY <1>3 DEF Placed
<1>6. \A m \in Waiting \ (f \ {x}) : Never(k, FetchToken(m))
  BY <1>3, <1>4 DEF Placed
<1>7. \A n \in 1 .. a : n \in 1 .. MaxRequests
  BY L2Assumption
<1>8. \A n \in (a + 1) .. MaxRequests : n \in 1 .. MaxRequests
  BY L2Assumption
<1>9. \A n \in 1 .. a : Once(k, RequestToken(n))
  BY <1>2, <1>7 DEF Placed, KeptRequests
<1>10. \A n \in (a + 1) .. MaxRequests : Never(k, RequestToken(n))
  BY <1>2, <1>8 DEF Placed, KeptRequests
<1> QED BY <1>5, <1>6, <1>9, <1>10 DEF Placed

\* A request arrives.
LEMMA PlacedMade ==
  ASSUME NEW c, NEW k, NEW f \in SUBSET Waiting, NEW a \in 0 .. (MaxRequests - 1),
         NEW x \in Arriving, x.id = a + 1, Others(c, k, 1, 1), Gains(c[1], k[1], x),
         Placed(c, f, a)
  PROVE  Placed(k, f, a + 1)
<1>1. \A m \in Waiting : x \notin FetchToken(m)[1]
  BY TokenParts
<1>2. KeptFetches(c, k)
  BY GainsKept, <1>1
<1>3. ASSUME NEW n \in 1 .. MaxRequests, n # a + 1
      PROVE  /\ Once(c, RequestToken(n)) => Once(k, RequestToken(n))
             /\ Never(c, RequestToken(n)) => Never(k, RequestToken(n))
  <2>1. RequestToken(n)[1] = Named(n)
    BY TokenParts
  <2>2. x \notin RequestToken(n)[1]
    BY <1>3, <2>1 DEF Named
  <2>3. 1 \in 1 .. 8
    OBVIOUS
  <2> QED BY GainsOther, <2>2, <2>3
<1>4. a + 1 \in 1 .. MaxRequests /\ a + 1 \in (a + 1) .. MaxRequests
  BY L2Assumption
<1>5. Once(k, RequestToken(a + 1))
  <2>1. Never(c, RequestToken(a + 1))
    BY <1>4 DEF Placed
  <2>2. \A i \in 1 .. 8 : Single(c[i], RequestToken(a + 1)[i])
    BY NeverSingle, <2>1
  <2>3. x \in RequestToken(a + 1)[1]
    BY TokenParts DEF Named
  <2> QED BY GainsFirst, <2>1, <2>2, <2>3
<1>6. \A m \in f : Once(k, FetchToken(m))
  BY <1>2 DEF Placed, KeptFetches
<1>7. \A m \in Waiting \ f : Never(k, FetchToken(m))
  BY <1>2 DEF Placed, KeptFetches
<1>8. ASSUME NEW n \in 1 .. (a + 1) PROVE Once(k, RequestToken(n))
  <2>1. CASE n = a + 1
    BY <1>5, <2>1
  <2>2. CASE n # a + 1
    <3>1. n \in 1 .. a /\ n \in 1 .. MaxRequests
      BY <2>2, L2Assumption
    <3> QED BY <1>3, <2>2, <3>1 DEF Placed
  <2> QED BY <2>1, <2>2
<1>9. ASSUME NEW n \in ((a + 1) + 1) .. MaxRequests PROVE Never(k, RequestToken(n))
  <2>1. n \in (a + 1) .. MaxRequests /\ n \in 1 .. MaxRequests /\ n # a + 1
    BY L2Assumption
  <2> QED BY <1>3, <2>1 DEF Placed
<1> QED BY <1>6, <1>7, <1>8, <1>9 DEF Placed

LEMMA PassesAre ==
  ASSUME NEW x \in Fetches
  PROVE  /\ Passes(x, 3, x, 4) /\ Passes(x, 4, x, 5) /\ Passes(x, 5, x, 6)
         /\ x \in Answers => Passes(x, 1, x, 7) /\ Passes(x, 2, x, 7)
         /\ x \in Answers => Passes(x, 7, x.id, 8)
         /\ x.kind = "read" => Passes(x, 1, x, 2)
         /\ x.kind \in {"write", "wrbk"} => Passes(x, 1, x, 3)
         /\ x.kind = "wrbk" => Passes(x, 1, x.id, 8) /\ Passes(x, 5, x.id, 8)
         /\ x.kind = "write" => Passes(x, 6, x, 7)
         /\ x.kind = "alloc" => Ignored(x, 2)
         /\ x.kind = "evict" =>
              Ignored(x, 3) /\ Ignored(x, 4) /\ Ignored(x, 5)
<1>1. Passes(x, 3, x, 4) /\ Passes(x, 4, x, 5) /\ Passes(x, 5, x, 6)
  BY TokenParts DEF Passes
<1>2. x \in Answers => x \in Arriving
  BY DEF Answers, Arriving
<1>3. ASSUME x \in Arriving PROVE \A n : x \in Named(n) <=> x.id \in {n}
  BY <1>3 DEF Named
<1>4. x \in Answers => Passes(x, 1, x, 7) /\ Passes(x, 2, x, 7)
  BY TokenParts DEF Passes
<1>5. ASSUME x \in Arriving PROVE Passes(x, 7, x.id, 8) /\ Passes(x, 1, x.id, 8)
  BY <1>3, <1>5, TokenParts DEF Passes
<1>6. x.kind = "read" => Passes(x, 1, x, 2)
  BY TokenParts DEF Passes
<1>7. ASSUME x.kind \in {"write", "wrbk"}
      PROVE  /\ x \in Arriving
             /\ \A n : x \in WritesNamed(n) <=> x \in Named(n)
             /\ \A m \in Waiting : x \notin {m}
  BY <1>7 DEF Arriving, WritesNamed, Named, Waiting
<1>8. x.kind \in {"write", "wrbk"} => Passes(x, 1, x, 3)
  BY <1>7, TokenParts DEF Passes
<1>9. ASSUME x.kind = "wrbk" PROVE Passes(x, 5, x.id, 8)
  <2>1. /\ \A n : x \in WritesNamed(n) <=> x.id \in {n}
        /\ \A m \in Waiting : x \notin {m}
    BY <1>3, <1>7, <1>9
  <2> QED BY <2>1, TokenParts DEF Passes
<1>10. x.kind = "write" => Passes(x, 6, x, 7)
  BY <1>7, TokenParts DEF Passes
<1>11. ASSUME x.kind \in {"alloc", "evict"}
       PROVE  \A n : x \notin Named(n) /\ x \notin WritesNamed(n)
  BY <1>11 DEF Named, WritesNamed, Arriving
<1>12. x.kind = "alloc" => Ignored(x, 2)
  BY <1>11, TokenParts DEF Ignored
<1>13. x.kind = "evict" => \A m \in Waiting : x \notin {m}
  BY DEF Waiting
<1>14. x.kind = "evict" => Ignored(x, 3) /\ Ignored(x, 4) /\ Ignored(x, 5)
  BY <1>11, <1>13, TokenParts DEF Ignored
<1>15. x.kind = "wrbk" => Passes(x, 1, x.id, 8)
  BY <1>5, <1>7
<1>16. x \in Answers => Passes(x, 7, x.id, 8)
  BY <1>2, <1>5
<1> QED BY <1>1, <1>4, <1>6, <1>8, <1>9, <1>10, <1>12, <1>14, <1>15, <1>16

LEMMA ContainersAre ==
  ASSUME NEW s, NEW d, NEW e
  PROVE  /\ Containers(s, d, e)[1] = s.icnt
         /\ Containers(s, d, e)[2] = Merged(s.mshr)
         /\ Containers(s, d, e)[3] = s.miss
         /\ Containers(s, d, e)[4] = s.toDram
         /\ Containers(s, d, e)[5] = Loose(d)
         /\ Containers(s, d, e)[6] = s.fromDram
         /\ Containers(s, d, e)[7] = s.reply
         /\ Containers(s, d, e)[8] = e
BY DEF Containers

LEMMA EightOthers ==
  ASSUME NEW c, NEW k, NEW g \in 1 .. 8, NEW h \in 1 .. 8,
         g = 1 \/ h = 1 \/ k[1] = c[1], g = 2 \/ h = 2 \/ k[2] = c[2],
         g = 3 \/ h = 3 \/ k[3] = c[3], g = 4 \/ h = 4 \/ k[4] = c[4],
         g = 5 \/ h = 5 \/ k[5] = c[5], g = 6 \/ h = 6 \/ k[6] = c[6],
         g = 7 \/ h = 7 \/ k[7] = c[7], g = 8 \/ h = 8 \/ k[8] = c[8]
  PROVE  Others(c, k, g, h)
<1> SUFFICES ASSUME NEW i \in 1 .. 8, i # g, i # h PROVE k[i] = c[i]
  BY DEF Others
<1>1. i = 1 \/ i = 2 \/ i = 3 \/ i = 4 \/ i = 5 \/ i = 6 \/ i = 7 \/ i = 8
  OBVIOUS
<1> QED BY <1>1

\* Only containers g and h change.
LEMMA OthersAre ==
  ASSUME NEW s, NEW d, NEW e, NEW r, NEW dd, NEW ee, NEW g \in 1 .. 8, NEW h \in 1 .. 8,
         g = 1 \/ h = 1 \/ r.icnt = s.icnt, g = 2 \/ h = 2 \/ r.mshr = s.mshr,
         g = 3 \/ h = 3 \/ r.miss = s.miss, g = 4 \/ h = 4 \/ r.toDram = s.toDram,
         g = 5 \/ h = 5 \/ dd = d, g = 6 \/ h = 6 \/ r.fromDram = s.fromDram,
         g = 7 \/ h = 7 \/ r.reply = s.reply, g = 8 \/ h = 8 \/ ee = e
  PROVE  Others(Containers(s, d, e), Containers(r, dd, ee), g, h)
<1> PICK c, k : c = Containers(s, d, e) /\ k = Containers(r, dd, ee)
  OBVIOUS
<1>1. /\ c[1] = s.icnt /\ c[2] = Merged(s.mshr) /\ c[3] = s.miss /\ c[4] = s.toDram
      /\ c[5] = Loose(d) /\ c[6] = s.fromDram /\ c[7] = s.reply /\ c[8] = e
  BY ContainersAre
<1>2. /\ k[1] = r.icnt /\ k[2] = Merged(r.mshr) /\ k[3] = r.miss /\ k[4] = r.toDram
      /\ k[5] = Loose(dd) /\ k[6] = r.fromDram /\ k[7] = r.reply /\ k[8] = ee
  BY ContainersAre
<1>3. g = 1 \/ h = 1 \/ k[1] = c[1]
  BY <1>1, <1>2
<1>4. g = 2 \/ h = 2 \/ k[2] = c[2]
  BY <1>1, <1>2
<1>5. g = 3 \/ h = 3 \/ k[3] = c[3]
  BY <1>1, <1>2
<1>6. g = 4 \/ h = 4 \/ k[4] = c[4]
  BY <1>1, <1>2
<1>7. g = 5 \/ h = 5 \/ k[5] = c[5]
  BY <1>1, <1>2
<1>8. g = 6 \/ h = 6 \/ k[6] = c[6]
  BY <1>1, <1>2
<1>9. g = 7 \/ h = 7 \/ k[7] = c[7]
  BY <1>1, <1>2
<1>10. g = 8 \/ h = 8 \/ k[8] = c[8]
  BY <1>1, <1>2
<1>11. Others(c, k, g, h)
  BY <1>3, <1>4, <1>5, <1>6, <1>7, <1>8, <1>9, <1>10, EightOthers
<1> QED BY <1>11

-----------------------------------------------------------------------------
(* The table of MSHR entries.                                              *)

LEMMA TableOf ==
  ASSUME NEW f \in Tables
  PROVE  /\ DOMAIN f \subseteq Blocks
         /\ \A b \in DOMAIN f :
              /\ f[b] \in Seq(Waiting) /\ f[b] # <<>>
              /\ Len(f[b]) \in Nat \ {0} /\ DOMAIN f[b] = 1 .. Len(f[b])
              /\ f[b][1] \in Waiting /\ Head(f[b]) = f[b][1]
<1>1. PICK D \in SUBSET Blocks : f \in [D -> Seq(Waiting) \ {<<>>}]
  BY DEF Tables
<1>2. DOMAIN f = D /\ \A b \in D : f[b] \in Seq(Waiting) /\ f[b] # <<>>
  BY <1>1
<1> SUFFICES ASSUME NEW b \in DOMAIN f
             PROVE  /\ Len(f[b]) \in Nat \ {0} /\ DOMAIN f[b] = 1 .. Len(f[b])
                    /\ f[b][1] \in Waiting /\ Head(f[b]) = f[b][1]
  BY <1>2
<1> PICK q \in Seq(Waiting) : q = f[b] /\ q # <<>>
  BY <1>2
<1>3. Len(q) \in Nat \ {0} /\ DOMAIN q = 1 .. Len(q) /\ q[1] \in Waiting /\ Head(q) = q[1]
  OBVIOUS
<1> QED BY <1>3

LEMMA TableIs ==
  ASSUME NEW f, NEW D \in SUBSET Blocks, DOMAIN f = D,
         f = [b \in DOMAIN f |-> f[b]],
         \A b \in D : f[b] \in Seq(Waiting) /\ f[b] # <<>>
  PROVE  f \in Tables
<1>1. f \in [D -> Seq(Waiting) \ {<<>>}]
  OBVIOUS
<1> QED BY <1>1 DEF Tables

\* g is the table f with request m added to the entry of block b.
Adds(f, g, b, m) ==
  /\ g \in Tables
  /\ DOMAIN g = DOMAIN f \cup {b}
  /\ \A c \in DOMAIN f : c # b => g[c] = f[c]
  /\ g[b] = Append(IF b \in DOMAIN f THEN f[b] ELSE <<>>, m)

\* g is the table f without the first request of the entry of block b.
Drops(f, g, b) ==
  /\ g \in Tables
  /\ DOMAIN g = IF Tail(f[b]) = <<>> THEN DOMAIN f \ {b} ELSE DOMAIN f
  /\ \A c \in DOMAIN g : g[c] = IF c = b THEN Tail(f[b]) ELSE f[c]

LEMMA AddsGains ==
  ASSUME NEW f \in Tables, NEW g, NEW b \in Blocks, NEW m \in Waiting, Adds(f, g, b, m)
  PROVE  Gains(Merged(f), Merged(g), m)
<1>1. \A c \in DOMAIN f : DOMAIN f[c] = 1 .. Len(f[c])
  BY TableOf
<1>2. \A c \in DOMAIN g : DOMAIN g[c] = 1 .. Len(g[c])
  BY TableOf DEF Adds
<1> PICK q : q = IF b \in DOMAIN f THEN f[b] ELSE <<>>
  OBVIOUS
<1>3. q \in Seq(Waiting)
  BY TableOf
<1>4. Gains(q, Append(q, m), m)
  BY AppendGains, <1>3
<1>5. g[b] = Append(q, m)
  BY DEF Adds
<1>6. Gains(IF b \in DOMAIN f THEN f[b] ELSE <<>>, g[b], m)
  BY <1>4, <1>5
<1>7. DOMAIN g = DOMAIN f \cup {b} /\ \A c \in DOMAIN f : c # b => g[c] = f[c]
  BY DEF Adds
<1> QED BY EntryGains, <1>1, <1>2, <1>6, <1>7

LEMMA DropsLoses ==
  ASSUME NEW f \in Tables, NEW g, NEW b \in DOMAIN f, Drops(f, g, b)
  PROVE  Loses(Merged(f), Merged(g), Head(f[b]))
<1>1. \A c \in DOMAIN f : DOMAIN f[c] = 1 .. Len(f[c])
  BY TableOf
<1>2. \A c \in DOMAIN g : DOMAIN g[c] = 1 .. Len(g[c])
  BY TableOf DEF Drops
<1>3. f[b] \in Seq(Waiting) /\ f[b] # <<>>
  BY TableOf
<1> PICK q, x : q = Tail(f[b]) /\ x = Head(f[b])
  OBVIOUS
<1>4. Loses(f[b], q, x)
  BY TailLoses, <1>3
<1>5. DOMAIN g = IF q = <<>> THEN DOMAIN f \ {b} ELSE DOMAIN f
  BY DEF Drops
<1>6. \A c \in DOMAIN g : g[c] = IF c = b THEN q ELSE f[c]
  BY DEF Drops
<1>7. Loses(Merged(f), Merged(g), x)
  BY EntryLoses, <1>1, <1>2, <1>4, <1>5, <1>6
<1> QED BY <1>7

\* u is s with list q as the entry of block b, released if it is empty.
Rewrites(s, u, b, q) ==
  /\ u \in SubPartitions
  /\ u = [s EXCEPT !.mshr = u.mshr]
  /\ DOMAIN u.mshr = IF q = <<>> THEN DOMAIN s.mshr \ {b} ELSE DOMAIN s.mshr \cup {b}
  /\ \A c \in DOMAIN u.mshr : u.mshr[c] = IF c = b THEN q ELSE s.mshr[c]

LEMMA WithEntryIs ==
  ASSUME NEW s \in SubPartitions, NEW b \in Blocks, NEW q \in Seq(Waiting)
  PROVE  Rewrites(s, WithEntry(s, b, q), b, q)
<1> PICK f \in Tables : f = s.mshr
  BY DEF SubPartitions
<1>1. DOMAIN f \subseteq Blocks /\ \A c \in DOMAIN f : f[c] \in Seq(Waiting) /\ f[c] # <<>>
  BY TableOf
<1> DEFINE D == (DOMAIN f \cup {b}) \ (IF q = <<>> THEN {b} ELSE {})
           g == [c \in D |-> IF c = b THEN q ELSE f[c]]
<1>2. WithEntry(s, b, q) = [s EXCEPT !.mshr = g]
  BY DEF WithEntry
<1>3. D = IF q = <<>> THEN DOMAIN f \ {b} ELSE DOMAIN f \cup {b}
  OBVIOUS
<1>4. D \in SUBSET Blocks
  BY <1>1
<1>5. DOMAIN g = D /\ \A c \in D : g[c] = IF c = b THEN q ELSE f[c]
  OBVIOUS
<1>6. g = [c \in DOMAIN g |-> g[c]]
  OBVIOUS
<1>7. \A c \in D : g[c] \in Seq(Waiting) /\ g[c] # <<>>
  BY <1>1, <1>3, <1>5
<1> HIDE DEF D, g
<1>8. g \in Tables
  BY TableIs, <1>4, <1>5, <1>6, <1>7
<1>9. [s EXCEPT !.mshr = g] \in SubPartitions /\ [s EXCEPT !.mshr = g].mshr = g
  BY <1>8 DEF SubPartitions
<1> PICK u : u = [s EXCEPT !.mshr = g]
  OBVIOUS
<1>10. Rewrites(s, u, b, q)
  BY <1>3, <1>5, <1>9 DEF Rewrites
<1> QED BY <1>2, <1>10

\* Blocks ready to be answered.
ReadyBlocks(s) == {s.ready[i] : i \in 1 .. Len(s.ready)}

LEMMA ReadyIs ==
  ASSUME NEW s \in SubPartitions
  PROVE  /\ s.ready \in Seq(Blocks) /\ s.mshr \in Tables
         /\ s.fetching \in SUBSET Waiting
         /\ \A m \in s.fetching : m \in Waiting /\ m.block \in Blocks
BY DEF SubPartitions, Waiting, Fetches, AllFetches

LEMMA MatchesDrops ==
  ASSUME NEW s \in SubPartitions, NEW r, Matches(s), s.ready # <<>>,
         Drops(s.mshr, r.mshr, Head(s.ready)), r.fetching = s.fetching,
         r.ready = IF Tail(s.mshr[Head(s.ready)]) = <<>> THEN Tail(s.ready)
                                                         ELSE s.ready
  PROVE  Matches(r) /\ Head(s.ready) \in DOMAIN s.mshr
<1> PICK b : b = Head(s.ready)
  OBVIOUS
<1> PICK q \in Seq(Blocks) : q = s.ready
  BY ReadyIs
<1> PICK n \in Nat : n = Len(q)
  OBVIOUS
<1>1. n >= 1 /\ b = q[1]
  BY TailOf
<1>2. b \in DOMAIN s.mshr
  BY <1>1 DEF Matches
<1>3. \A m \in s.fetching : m.block # b
  BY <1>1 DEF Matches
<1>4. \A m \in r.fetching : m.block \in DOMAIN r.mshr
  BY <1>3 DEF Matches, Drops
<1>5. \A m \in r.fetching : r.mshr[m.block][1] = m
  <2> SUFFICES ASSUME NEW m \in s.fetching PROVE r.mshr[m.block][1] = m
    OBVIOUS
  <2>1. m.block # b /\ m.block \in DOMAIN r.mshr
    BY <1>3, <1>4
  <2>2. r.mshr[m.block] = s.mshr[m.block]
    BY <2>1 DEF Drops
  <2>3. s.mshr[m.block][1] = m
    BY DEF Matches
  <2> QED BY <2>2, <2>3
<1>6. \A i, j \in 1 .. n : q[i] = q[j] => i = j
  BY DEF Matches
<1>7. \A i \in 1 .. n : q[i] \in DOMAIN s.mshr
  BY DEF Matches
<1>8. \A i \in 1 .. n : \A m \in s.fetching : q[i] # m.block
  BY DEF Matches
<1>9. ASSUME NEW c \in DOMAIN s.mshr
      PROVE  (\E i \in 1 .. n : q[i] = c) \/ (\E m \in s.fetching : m.block = c)
  BY DEF Matches
<1>10. CASE Tail(s.mshr[b]) = <<>>
  <2> PICK t : t = Tail(q)
    OBVIOUS
  <2>1. r.ready = t /\ DOMAIN r.mshr = DOMAIN s.mshr \ {b}
    BY <1>10 DEF Drops
  <2>2. Len(t) = n - 1 /\ \A i \in 1 .. (n - 1) : t[i] = q[i + 1]
    BY <1>1, TailOf
  <2>3. \A i \in 1 .. (n - 1) : i + 1 \in 1 .. n /\ i + 1 # 1
    OBVIOUS
  <2>4. \A i, j \in 1 .. Len(t) : t[i] = t[j] => i = j
    BY <1>6, <2>2, <2>3
  <2>5. \A i \in 1 .. Len(t) : t[i] \in DOMAIN r.mshr
    <3> SUFFICES ASSUME NEW i \in 1 .. (n - 1) PROVE t[i] \in DOMAIN r.mshr
      BY <2>2
    <3>1. 1 \in 1 .. n
      BY <1>1
    <3>2. q[i + 1] # q[1]
      BY <1>6, <2>3, <3>1
    <3>3. q[i + 1] \in DOMAIN s.mshr
      BY <1>7, <2>3
    <3> QED BY <1>1, <2>1, <2>2, <3>2, <3>3
  <2>6. \A i \in 1 .. Len(t) : \A m \in r.fetching : t[i] # m.block
    BY <1>8, <2>2, <2>3
  <2>7. ASSUME NEW c \in DOMAIN r.mshr
        PROVE  (\E i \in 1 .. Len(t) : t[i] = c) \/ (\E m \in r.fetching : m.block = c)
    <3>1. CASE \E m \in s.fetching : m.block = c
      BY <3>1
    <3>2. CASE \E i \in 1 .. n : q[i] = c
      <4>1. PICK i \in 1 .. n : q[i] = c
        BY <3>2
      <4>2. i # 1
        BY <1>1, <2>1, <4>1
      <4>3. i - 1 \in 1 .. (n - 1) /\ (i - 1) + 1 = i
        BY <4>2
      <4>4. t[i - 1] = c
        BY <2>2, <4>1, <4>3
      <4> QED BY <2>2, <4>3, <4>4
    <3>3. c \in DOMAIN s.mshr
      BY <2>1
    <3> QED BY <1>9, <3>1, <3>2, <3>3
  <2>8. \A i, j \in 1 .. Len(r.ready) : r.ready[i] = r.ready[j] => i = j
    BY <2>1, <2>4
  <2>9. \A i \in 1 .. Len(r.ready) : r.ready[i] \in DOMAIN r.mshr
    BY <2>1, <2>5
  <2>10. \A i \in 1 .. Len(r.ready) : \A m \in r.fetching : r.ready[i] # m.block
    BY <2>1, <2>6
  <2>11. \A c \in DOMAIN r.mshr :
           \/ \E i \in 1 .. Len(r.ready) : r.ready[i] = c
           \/ \E m \in r.fetching : m.block = c
    BY <2>1, <2>7
  <2> QED BY <1>2, <1>4, <1>5, <2>8, <2>9, <2>10, <2>11 DEF Matches
<1>11. CASE Tail(s.mshr[b]) # <<>>
  <2>1. r.ready = q /\ DOMAIN r.mshr = DOMAIN s.mshr
    BY <1>11 DEF Drops
  <2>2. \A i, j \in 1 .. Len(r.ready) : r.ready[i] = r.ready[j] => i = j
    BY <2>1, <1>6
  <2>3. \A i \in 1 .. Len(r.ready) : r.ready[i] \in DOMAIN r.mshr
    BY <2>1, <1>7
  <2>4. \A i \in 1 .. Len(r.ready) : \A m \in r.fetching : r.ready[i] # m.block
    BY <2>1, <1>8
  <2>5. \A c \in DOMAIN r.mshr :
           \/ \E i \in 1 .. Len(r.ready) : r.ready[i] = c
           \/ \E m \in r.fetching : m.block = c
    BY <2>1, <1>9
  <2> QED BY <1>2, <1>4, <1>5, <2>2, <2>3, <2>4, <2>5 DEF Matches
<1> QED BY <1>10, <1>11

Config ==
  /\ maxMerged \in MergeLimits /\ writeHit \in WriteHits
  /\ writeAllocate \in Allocations

LEMMA LimitsDrops ==
  ASSUME NEW s \in SubPartitions, NEW r, NEW b \in DOMAIN s.mshr, Config, Limits(s),
         Drops(s.mshr, r.mshr, b)
  PROVE  Limits(r)
<1>1. DOMAIN r.mshr \subseteq DOMAIN s.mshr
  BY DEF Drops
<1>2. IsFiniteSet(DOMAIN s.mshr) /\ Cardinality(DOMAIN s.mshr) <= Entries
  BY DEF Limits
<1>3. IsFiniteSet(DOMAIN r.mshr) /\ Cardinality(DOMAIN r.mshr) <= Cardinality(DOMAIN s.mshr)
  BY <1>1, <1>2, FS_Subset
<1>4. Cardinality(DOMAIN r.mshr) \in Nat /\ Cardinality(DOMAIN s.mshr) \in Nat
  BY <1>2, <1>3, FS_CardinalityType
<1>5. Cardinality(DOMAIN r.mshr) <= Entries
  BY <1>2, <1>3, <1>4, L2Assumption
<1>6. ASSUME NEW c \in DOMAIN r.mshr PROVE Len(r.mshr[c]) <= maxMerged
  <2>1. c \in DOMAIN s.mshr /\ Len(s.mshr[c]) <= maxMerged
    BY <1>1 DEF Limits
  <2>2. CASE c = b
    <3>1. s.mshr[b] \in Seq(Waiting) /\ s.mshr[b] # <<>>
      BY ReadyIs, TableOf
    <3>2. Len(Tail(s.mshr[b])) = Len(s.mshr[b]) - 1 /\ Len(s.mshr[b]) \in Nat
      BY <3>1
    <3>3. r.mshr[c] = Tail(s.mshr[b])
      BY <2>2 DEF Drops
    <3>4. maxMerged \in Nat
      BY L2Assumption DEF Config
    <3> QED BY <2>1, <2>2, <3>2, <3>3, <3>4
  <2>3. CASE c # b
    BY <2>1, <2>3 DEF Drops
  <2> QED BY <2>2, <2>3
<1> QED BY <1>3, <1>5, <1>6 DEF Limits

-----------------------------------------------------------------------------
(* The stages of a cycle.                                                  *)

LEMMA AnswerFields ==
  ASSUME NEW s \in SubPartitions, Matches(s), s.ready # <<>>, Room(s.reply)
  PROVE  LET b == Head(s.ready)
             m == Head(s.mshr[b])
             r == Answer(s)
         IN /\ r \in SubPartitions /\ b \in DOMAIN s.mshr
            /\ Drops(s.mshr, r.mshr, b)
            /\ r.ready = IF Tail(s.mshr[b]) = <<>> THEN Tail(s.ready) ELSE s.ready
            /\ r.reply = IF m.kind = "alloc" THEN s.reply ELSE Append(s.reply, m)
            /\ m \in Waiting
            /\ r.icnt = s.icnt /\ r.lines = s.lines /\ r.fetching = s.fetching
            /\ r.miss = s.miss /\ r.toDram = s.toDram /\ r.fromDram = s.fromDram
            /\ r.tracked = s.tracked
<1> PICK b, m : b = Head(s.ready) /\ m = Head(s.mshr[b])
  OBVIOUS
<1> PICK q \in Seq(Blocks) : q = s.ready
  BY ReadyIs
<1>1. Len(q) >= 1 /\ b = q[1] /\ Tail(q) \in Seq(Blocks) /\ Len(q) \in Nat
  BY TailOf
<1>2. b \in DOMAIN s.mshr
  BY <1>1 DEF Matches
<1>3. s.mshr[b] \in Seq(Waiting) /\ s.mshr[b] # <<>> /\ b \in Blocks
  BY <1>2, ReadyIs, TableOf
<1>4. m \in Waiting
  BY <1>3
<1> PICK p \in Seq(Waiting) : p = s.mshr[b] /\ p # <<>>
  BY <1>3
<1>5. Tail(p) \in Seq(Waiting)
  BY TailOf
<1> PICK rest \in Seq(Waiting) : rest = Tail(p)
  BY <1>5
<1>6. rest = Tail(s.mshr[b]) /\ b \in Blocks
  BY <1>3
<1> PICK u : u = WithEntry(s, b, rest)
  OBVIOUS
<1>7. s \in SubPartitions /\ b \in Blocks /\ rest \in Seq(Waiting)
  BY <1>6
<1>8. Rewrites(s, u, b, rest)
  BY WithEntryIs, <1>7
<1>9. u \in SubPartitions /\ u = [s EXCEPT !.mshr = u.mshr]
  BY <1>8 DEF Rewrites
<1>10. DOMAIN u.mshr = IF rest = <<>> THEN DOMAIN s.mshr \ {b} ELSE DOMAIN s.mshr \cup {b}
  BY <1>8 DEF Rewrites
<1>11. \A c \in DOMAIN u.mshr : u.mshr[c] = IF c = b THEN rest ELSE s.mshr[c]
  BY <1>8 DEF Rewrites
<1>12. u.mshr \in Tables
  BY <1>9 DEF SubPartitions
<1>13. Drops(s.mshr, u.mshr, b)
  BY <1>2, <1>10, <1>11, <1>12 DEF Drops
<1> PICK rd : rd = IF rest = <<>> THEN Tail(s.ready) ELSE s.ready
  OBVIOUS
<1> PICK rp : rp = IF m.kind = "alloc" THEN s.reply ELSE Append(s.reply, m)
  OBVIOUS
<1>14. u.ready = s.ready /\ u.reply = s.reply
  BY <1>9 DEF SubPartitions
<1>15. Answer(s) = [[u EXCEPT !.ready = rd] EXCEPT !.reply = rp]
  BY <1>14 DEF Answer, NextAccess
<1>16. rd \in Seq(Blocks)
  BY <1>1
<1>17. rp \in Seq(Answers)
  <2>1. m.kind # "alloc" => m \in Answers
    BY <1>4 DEF Waiting, Answers
  <2>2. s.reply \in Seq(Answers)
    BY DEF SubPartitions
  <2> QED BY <2>1, <2>2
<1> PICK v : v = [u EXCEPT !.ready = rd]
  OBVIOUS
<1>18. v \in SubPartitions
  BY <1>9, <1>16 DEF SubPartitions
<1>19. [v EXCEPT !.reply = rp] \in SubPartitions
  BY <1>18, <1>17 DEF SubPartitions
<1>20. [[u EXCEPT !.ready = rd] EXCEPT !.reply = rp] \in SubPartitions
  BY <1>19
<1> PICK r : r = Answer(s)
  OBVIOUS
<1>21. r = [s EXCEPT !.mshr = u.mshr, !.ready = rd, !.reply = rp]
  BY <1>9, <1>15 DEF SubPartitions
<1>22. /\ r.mshr = u.mshr /\ r.ready = rd /\ r.reply = rp
       /\ r.icnt = s.icnt /\ r.lines = s.lines /\ r.fetching = s.fetching
       /\ r.miss = s.miss /\ r.toDram = s.toDram /\ r.fromDram = s.fromDram
       /\ r.tracked = s.tracked
  BY <1>21 DEF SubPartitions
<1> QED BY <1>2, <1>4, <1>13, <1>15, <1>20, <1>22

LEMMA AnswerSound ==
  ASSUME Config, NEW s, NEW d, NEW e, NEW a \in 0 .. MaxRequests, Sound(s, d, e, a)
  PROVE  Sound(Answer(s), d, e, a)
<1>1. CASE ~(s.ready # <<>> /\ Room(s.reply))
  BY <1>1 DEF Answer
<1>2. CASE s.ready # <<>> /\ Room(s.reply)
  <2>1. s \in SubPartitions /\ Matches(s)
    BY DEF Sound
  <2> PICK r, b, m : r = Answer(s) /\ b = Head(s.ready) /\ m = Head(s.mshr[b])
    OBVIOUS
  <2>2. /\ r \in SubPartitions /\ b \in DOMAIN s.mshr
        /\ Drops(s.mshr, r.mshr, b)
        /\ r.ready = IF Tail(s.mshr[b]) = <<>> THEN Tail(s.ready) ELSE s.ready
        /\ r.reply = IF m.kind = "alloc" THEN s.reply ELSE Append(s.reply, m)
        /\ m \in Waiting
        /\ r.icnt = s.icnt /\ r.lines = s.lines /\ r.fetching = s.fetching
        /\ r.miss = s.miss /\ r.toDram = s.toDram /\ r.fromDram = s.fromDram
        /\ r.tracked = s.tracked
    BY AnswerFields, <1>2, <2>1
  <2>3. SetOfLines(r)
    BY <2>2 DEF Sound, SetOfLines
  <2>4. Reserves(r)
    BY <2>2 DEF Sound, Reserves, IsReserved
  <2>5. Matches(r)
    BY MatchesDrops, <1>2, <2>1, <2>2
  <2>6. Limits(r)
    BY LimitsDrops, <2>1, <2>2 DEF Sound
  <2>7. s.reply \in Seq(Answers) /\ s.mshr \in Tables /\ s.fetching \in SUBSET Waiting
    BY <2>1 DEF SubPartitions
  <2>8. m.kind # "alloc" => m \in Answers
    BY <2>2 DEF Waiting, Answers
  <2>9. Sizes(r)
    <3>1. Len(r.reply) <= QueueSize
      <4>1. Len(s.reply) \in Nat /\ Len(s.reply) < QueueSize
        BY <1>2, <2>7 DEF Room
      <4>2. m.kind # "alloc" => Len(Append(s.reply, m)) = Len(s.reply) + 1
        BY <2>7, <2>8
      <4> QED BY <2>2, <4>1, <4>2, L2Assumption
    <3> QED BY <2>2, <3>1 DEF Sound, Sizes
  <2>10. Placed(Containers(r, d, e), r.fetching, a)
    <3> PICK c, k : c = Containers(s, d, e) /\ k = Containers(r, d, e)
      OBVIOUS
    <3> PICK f \in SUBSET Waiting : f = s.fetching
      BY <2>7
    <3>1. /\ c[1] = s.icnt /\ c[2] = Merged(s.mshr) /\ c[3] = s.miss /\ c[4] = s.toDram
           /\ c[5] = Loose(d) /\ c[6] = s.fromDram /\ c[7] = s.reply /\ c[8] = e
      BY ContainersAre
    <3>2. /\ k[1] = r.icnt /\ k[2] = Merged(r.mshr) /\ k[3] = r.miss /\ k[4] = r.toDram
           /\ k[5] = Loose(d) /\ k[6] = r.fromDram /\ k[7] = r.reply /\ k[8] = e
      BY ContainersAre
    <3>3. 2 \in 1 .. 8 /\ 7 \in 1 .. 8 /\ 2 # 7
      OBVIOUS
    <3>4. Placed(c, f, a)
      BY DEF Sound
    <3>5. Loses(Merged(s.mshr), Merged(r.mshr), m)
      BY DropsLoses, <2>2, <2>7
    <3>6. Loses(c[2], k[2], m)
      BY <3>5, <3>1, <3>2
    <3>7. CASE m.kind = "alloc"
      <4>1. r.reply = s.reply
        BY <2>2, <3>7
      <4>2. k[1] = c[1] /\ k[3] = c[3] /\ k[4] = c[4] /\ k[5] = c[5] /\ k[6] = c[6]
        BY <2>2, <3>1, <3>2
      <4>3. k[7] = c[7] /\ k[8] = c[8]
        BY <4>1, <3>1, <3>2
      <4>4. Others(c, k, 2, 2)
        BY <4>2, <4>3, <3>3, EightOthers
      <4>5. Ignored(m, 2)
        BY PassesAre, <2>2, <3>7 DEF Waiting
      <4>6. Placed(k, f, a)
        BY PlacedLoses, <3>3, <3>4, <3>6, <4>4, <4>5
      <4> QED BY <2>2, <4>6
    <3>8. CASE m.kind # "alloc"
      <4>1. r.reply = Append(s.reply, m) /\ m \in Answers
        BY <2>2, <2>8, <3>8
      <4>2. /\ k[1] = c[1] /\ k[3] = c[3] /\ k[4] = c[4] /\ k[5] = c[5] /\ k[6] = c[6]
            /\ k[8] = c[8]
        BY <2>2, <3>1, <3>2
      <4>3. Others(c, k, 2, 7)
        BY <4>2, <3>3, EightOthers
      <4>4. Gains(s.reply, r.reply, m)
        BY AppendGains, <2>7, <4>1
      <4>5. Gains(c[7], k[7], m)
        BY <4>4, <3>1, <3>2
      <4>6. Passes(m, 2, m, 7)
        BY PassesAre, <4>1 DEF Answers
      <4>7. Placed(k, f, a)
        BY PlacedTransfer, <3>3, <3>4, <3>6, <4>3, <4>5, <4>6
      <4> QED BY <2>2, <4>7
    <3> QED BY <3>7, <3>8
  <2>11. Tracks(r, e, a)
    BY <2>2 DEF Sound, Tracks
  <2> QED BY <2>2, <2>3, <2>4, <2>5, <2>6, <2>9, <2>10, <2>11 DEF Sound
<1> QED BY <1>1, <1>2

LEMMA MissToDramSound ==
  ASSUME Config, NEW s, NEW d, NEW e, NEW a \in 0 .. MaxRequests, Sound(s, d, e, a)
  PROVE  Sound(MissToDram(s), d, e, a)
<1>1. CASE ~(s.miss # <<>> /\ Room(s.toDram))
  BY <1>1 DEF MissToDram
<1>2. CASE s.miss # <<>> /\ Room(s.toDram)
  <2>1. s \in SubPartitions
    BY DEF Sound
  <2>2. s.miss \in Seq(Fetches) /\ s.toDram \in Seq(Fetches) /\ s.fetching \in SUBSET Waiting
    BY <2>1 DEF SubPartitions
  <2> PICK r, m : r = MissToDram(s) /\ m = Head(s.miss)
    OBVIOUS
  <2>3. m \in Fetches /\ Tail(s.miss) \in Seq(Fetches) /\ Append(s.toDram, m) \in Seq(Fetches)
    BY <1>2, <2>2
  <2>4. r = [s EXCEPT !.toDram = Append(s.toDram, m), !.miss = Tail(s.miss)]
    BY <1>2 DEF MissToDram
  <2>5. /\ r \in SubPartitions
        /\ r.toDram = Append(s.toDram, m) /\ r.miss = Tail(s.miss)
        /\ r.icnt = s.icnt /\ r.lines = s.lines /\ r.fetching = s.fetching
        /\ r.mshr = s.mshr /\ r.ready = s.ready /\ r.fromDram = s.fromDram
        /\ r.tracked = s.tracked /\ r.reply = s.reply
    BY <2>1, <2>3, <2>4 DEF SubPartitions
  <2>6. SetOfLines(r)
    BY <2>5 DEF Sound, SetOfLines
  <2>7. Reserves(r)
    BY <2>5 DEF Sound, Reserves, IsReserved
  <2>8. Matches(r)
    BY <2>5 DEF Sound, Matches
  <2>9. Limits(r)
    BY <2>5 DEF Sound, Limits
  <2>10. Sizes(r)
    <3>1. Len(r.toDram) <= QueueSize
      <4>1. Len(s.toDram) \in Nat /\ Len(s.toDram) < QueueSize
        BY <1>2, <2>2 DEF Room
      <4>2. Len(Append(s.toDram, m)) = Len(s.toDram) + 1
        BY <2>2, <2>3
      <4> QED BY <2>5, <4>1, <4>2, L2Assumption
    <3>2. Len(r.miss) <= MissSize
      <4>1. Len(s.miss) \in Nat /\ Len(s.miss) <= MissSize
        BY <2>2 DEF Sound, Sizes
      <4>2. Len(Tail(s.miss)) = Len(s.miss) - 1
        BY <1>2, <2>2
      <4> QED BY <2>5, <4>1, <4>2, L2Assumption
    <3> QED BY <2>5, <3>1, <3>2 DEF Sound, Sizes
  <2>11. Placed(Containers(r, d, e), r.fetching, a)
    <3> PICK c, k : c = Containers(s, d, e) /\ k = Containers(r, d, e)
      OBVIOUS
    <3> PICK f \in SUBSET Waiting : f = s.fetching
      BY <2>2
    <3>1. /\ c[1] = s.icnt /\ c[2] = Merged(s.mshr) /\ c[3] = s.miss /\ c[4] = s.toDram
           /\ c[5] = Loose(d) /\ c[6] = s.fromDram /\ c[7] = s.reply /\ c[8] = e
      BY ContainersAre
    <3>2. /\ k[1] = r.icnt /\ k[2] = Merged(r.mshr) /\ k[3] = r.miss /\ k[4] = r.toDram
           /\ k[5] = Loose(d) /\ k[6] = r.fromDram /\ k[7] = r.reply /\ k[8] = e
      BY ContainersAre
    <3>3. 3 \in 1 .. 8 /\ 4 \in 1 .. 8 /\ 3 # 4
      OBVIOUS
    <3>4. Placed(c, f, a)
      BY DEF Sound
    <3>5. Loses(s.miss, r.miss, m)
      BY TailLoses, <1>2, <2>2, <2>5
    <3>6. Loses(c[3], k[3], m)
      BY <3>5, <3>1, <3>2
    <3>7. Gains(s.toDram, r.toDram, m)
      BY AppendGains, <2>2, <2>3, <2>5
    <3>8. Gains(c[4], k[4], m)
      BY <3>7, <3>1, <3>2
    <3>9. /\ k[1] = c[1] /\ k[2] = c[2] /\ k[5] = c[5] /\ k[6] = c[6]
           /\ k[7] = c[7] /\ k[8] = c[8]
      BY <2>5, <3>1, <3>2
    <3>10. Others(c, k, 3, 4)
      BY <3>9, <3>3, EightOthers
    <3>11. Passes(m, 3, m, 4)
      BY PassesAre, <2>3
    <3>12. Placed(k, f, a)
      BY PlacedTransfer, <3>3, <3>4, <3>6, <3>8, <3>10, <3>11
    <3> QED BY <2>5, <3>12
  <2>12. Tracks(r, e, a)
    BY <2>5 DEF Sound, Tracks
  <2> QED BY <2>5, <2>6, <2>7, <2>8, <2>9, <2>10, <2>11, <2>12 DEF Sound
<1> QED BY <1>1, <1>2

\* r is the set of lines q with that of block b filled.
Fills(q, r, b) ==
  /\ r \in Seq(CacheLines) /\ Len(r) = Len(q)
  /\ \A i \in 1 .. Len(q) : r[i].block = q[i].block
  /\ \A i \in 1 .. Len(q) : q[i].block # b => r[i] = q[i]
  /\ \A i \in 1 .. Len(q) : q[i].block = b => r[i].status = "valid"

LEMMA LinesFill ==
  ASSUME NEW q \in Seq(CacheLines), NEW b
  PROVE  Fills(q, [i \in DOMAIN q |-> IF q[i].block = b
                                        THEN [q[i] EXCEPT !.status = "valid"]
                                        ELSE q[i]], b)
<1> PICK n \in Nat : n = Len(q)
  OBVIOUS
<1>1. DOMAIN q = 1 .. n /\ \A i \in 1 .. n : q[i] \in CacheLines
  OBVIOUS
<1> DEFINE F(i) == IF q[i].block = b THEN [q[i] EXCEPT !.status = "valid"] ELSE q[i]
           r == [i \in DOMAIN q |-> F(i)]
<1>2. ASSUME NEW i \in 1 .. n
      PROVE  /\ F(i) \in CacheLines /\ F(i).block = q[i].block
             /\ q[i].block # b => F(i) = q[i]
             /\ q[i].block = b => F(i).status = "valid"
  <2> PICK x \in CacheLines : x = q[i]
    BY <1>1
  <2> QED BY DEF CacheLines, Statuses
<1>3. r \in [1 .. n -> CacheLines]
  BY <1>1, <1>2
<1>4. r \in Seq(CacheLines) /\ Len(r) = n
  BY <1>3
<1>5. \A i \in 1 .. n : r[i] = F(i)
  BY <1>1
<1> HIDE DEF F, r
<1>6. Fills(q, r, b)
  BY <1>2, <1>4, <1>5 DEF Fills
<1> QED BY <1>6 DEF F, r

\* Two fetches under way are of different blocks.
LEMMA FetchesDiffer ==
  ASSUME NEW s, Matches(s), NEW m \in s.fetching, NEW n \in s.fetching,
         m.block = n.block
  PROVE  m = n
<1>1. \A x \in s.fetching : s.mshr[x.block][1] = x
  BY DEF Matches
<1>2. s.mshr[m.block][1] = m /\ s.mshr[n.block][1] = n
  BY <1>1
<1> QED BY <1>2

LEMMA MatchesFilled ==
  ASSUME NEW s \in SubPartitions, NEW r, Matches(s), NEW m \in s.fetching,
         r.mshr = s.mshr, r.ready = Append(s.ready, m.block),
         r.fetching = s.fetching \ {m}
  PROVE  Matches(r)
<1> PICK b \in Blocks : b = m.block
  BY ReadyIs
<1> PICK q \in Seq(Blocks) : q = s.ready
  BY ReadyIs
<1> PICK n \in Nat : n = Len(q)
  OBVIOUS
<1> PICK t : t = Append(q, b)
  OBVIOUS
<1>1. Len(t) = n + 1 /\ t[n + 1] = b /\ \A i \in 1 .. n : t[i] = q[i]
  BY AppendOf
<1>2. \A i \in 1 .. (n + 1) : i \in 1 .. n \/ i = n + 1
  OBVIOUS
<1>3. \A i \in 1 .. n : q[i] # b
  BY DEF Matches
<1>4. ASSUME NEW i \in 1 .. (n + 1), NEW j \in 1 .. (n + 1), t[i] = t[j] PROVE i = j
  <2>1. \A x, y \in 1 .. n : q[x] = q[y] => x = y
    BY DEF Matches
  <2>2. CASE i \in 1 .. n /\ j \in 1 .. n
    BY <1>1, <1>4, <2>1, <2>2
  <2>3. CASE i = n + 1 /\ j = n + 1
    BY <2>3
  <2>4. CASE i \in 1 .. n /\ j = n + 1
    BY <1>1, <1>3, <1>4, <2>4
  <2>5. CASE i = n + 1 /\ j \in 1 .. n
    BY <1>1, <1>3, <1>4, <2>5
  <2> QED BY <1>2, <2>2, <2>3, <2>4, <2>5
<1>5. b \in DOMAIN s.mshr
  BY DEF Matches
<1>6. \A i \in 1 .. n : q[i] \in DOMAIN s.mshr
  BY DEF Matches
<1>7. \A i \in 1 .. (n + 1) : t[i] \in DOMAIN r.mshr
  BY <1>1, <1>2, <1>5, <1>6
<1>8. \A x \in s.fetching \ {m} : x.block # b
  BY FetchesDiffer
<1>9. \A i \in 1 .. n : \A x \in s.fetching : q[i] # x.block
  BY DEF Matches
<1>10. \A i \in 1 .. (n + 1) : \A x \in r.fetching : t[i] # x.block
  BY <1>1, <1>2, <1>8, <1>9
<1>11. ASSUME NEW c \in DOMAIN s.mshr
       PROVE  (\E i \in 1 .. (n + 1) : t[i] = c) \/ (\E x \in r.fetching : x.block = c)
  <2>1. (\E i \in 1 .. n : q[i] = c) \/ (\E x \in s.fetching : x.block = c)
    BY DEF Matches
  <2>2. CASE \E i \in 1 .. n : q[i] = c
    <3>1. PICK i \in 1 .. n : q[i] = c
      BY <2>2
    <3>2. i \in 1 .. (n + 1) /\ t[i] = c
      BY <1>1, <3>1
    <3> QED BY <3>2
  <2>3. CASE \E x \in s.fetching : x.block = c
    <3>1. n + 1 \in 1 .. (n + 1)
      OBVIOUS
    <3> QED BY <1>1, <2>3, <3>1
  <2> QED BY <2>1, <2>2, <2>3
<1>12. \A x \in r.fetching : x.block \in DOMAIN r.mshr
  BY DEF Matches
<1>13. \A x \in r.fetching : r.mshr[x.block][1] = x
  BY DEF Matches
<1>14. r.ready = t /\ Len(r.ready) = n + 1
  BY <1>1
<1>15. \A i, j \in 1 .. Len(r.ready) : r.ready[i] = r.ready[j] => i = j
  BY <1>4, <1>14
<1>16. \A i \in 1 .. Len(r.ready) : r.ready[i] \in DOMAIN r.mshr
  BY <1>7, <1>14
<1>17. \A i \in 1 .. Len(r.ready) : \A x \in r.fetching : r.ready[i] # x.block
  BY <1>10, <1>14
<1>18. \A c \in DOMAIN r.mshr :
         \/ \E i \in 1 .. Len(r.ready) : r.ready[i] = c
         \/ \E x \in r.fetching : x.block = c
  BY <1>11, <1>14
<1> QED BY <1>12, <1>13, <1>15, <1>16, <1>17, <1>18 DEF Matches

\* r is s after a fill by m.
Filled(s, r, m) ==
  /\ r \in SubPartitions
  /\ Fills(s.lines, r.lines, m.block)
  /\ r.ready = Append(s.ready, m.block)
  /\ r.fetching = s.fetching \ {m} /\ r.fromDram = Tail(s.fromDram)
  /\ r.icnt = s.icnt /\ r.mshr = s.mshr /\ r.miss = s.miss
  /\ r.toDram = s.toDram /\ r.reply = s.reply /\ r.tracked = s.tracked

LEMMA FillFields ==
  ASSUME NEW s \in SubPartitions, s.fromDram # <<>>,
         NEW m \in s.fetching
  PROVE  Filled(s, [Fill(s, m) EXCEPT !.fromDram = Tail(@)], m)
<1>1. /\ s.fromDram \in Seq(Returning) /\ s.fetching \in SUBSET Waiting
      /\ s.lines \in Seq(CacheLines) /\ s.ready \in Seq(Blocks)
  BY DEF SubPartitions
<1>2. m.block \in Blocks
  BY ReadyIs
<1>3. Tail(s.fromDram) \in Seq(Returning)
  BY <1>1, TailOf
<1> PICK l : l = [i \in DOMAIN s.lines |-> IF s.lines[i].block = m.block
                                             THEN [s.lines[i] EXCEPT !.status = "valid"]
                                             ELSE s.lines[i]]
  OBVIOUS
<1>4. Fills(s.lines, l, m.block)
  BY LinesFill, <1>1
<1>5. l \in Seq(CacheLines)
  BY <1>4 DEF Fills
<1> PICK u : u = [s EXCEPT !.lines = l, !.ready = Append(s.ready, m.block),
                           !.fetching = s.fetching \ {m}]
  OBVIOUS
<1>6. Fill(s, m) = u
  BY DEF Fill
<1>7. Append(s.ready, m.block) \in Seq(Blocks)
  BY <1>1, <1>2
<1>8. s.fetching \ {m} \in SUBSET Waiting
  BY <1>1
<1>9. u \in SubPartitions
  BY <1>5, <1>7, <1>8 DEF SubPartitions
<1> PICK r : r = [u EXCEPT !.fromDram = Tail(@)]
  OBVIOUS
<1>10. u.fromDram = s.fromDram
  BY DEF SubPartitions
<1>11. r = [s EXCEPT !.lines = l, !.ready = Append(s.ready, m.block),
                     !.fetching = s.fetching \ {m}, !.fromDram = Tail(s.fromDram)]
  BY <1>10 DEF SubPartitions
<1>12. r \in SubPartitions
  BY <1>3, <1>9, <1>10 DEF SubPartitions
<1>13. /\ r.lines = l /\ r.ready = Append(s.ready, m.block)
       /\ r.fetching = s.fetching \ {m} /\ r.fromDram = Tail(s.fromDram)
       /\ r.icnt = s.icnt /\ r.mshr = s.mshr /\ r.miss = s.miss
       /\ r.toDram = s.toDram /\ r.reply = s.reply /\ r.tracked = s.tracked
  BY <1>11 DEF SubPartitions
<1>14. Filled(s, r, m)
  BY <1>4, <1>12, <1>13 DEF Filled
<1> QED BY <1>6, <1>14

LEMMA FillSound ==
  ASSUME Config, NEW s, NEW d, NEW e, NEW a \in 0 .. MaxRequests, Sound(s, d, e, a),
         s.fromDram # <<>>, NEW m \in s.fetching, m = Head(s.fromDram),
         NEW r, Filled(s, r, m)
  PROVE  Sound(r, d, e, a)
<1>1. s \in SubPartitions /\ Matches(s)
  BY DEF Sound
<1>2. /\ s.fromDram \in Seq(Returning) /\ s.fetching \in SUBSET Waiting
      /\ s.lines \in Seq(CacheLines) /\ s.ready \in Seq(Blocks)
  BY <1>1 DEF SubPartitions
<1>3. Tail(s.fromDram) \in Seq(Returning) /\ Len(Tail(s.fromDram)) = Len(s.fromDram) - 1
  BY <1>2, TailOf
<1> PICK l : l = r.lines
  OBVIOUS
<1>4. Fills(s.lines, l, m.block)
  BY DEF Filled
<1>5. r \in SubPartitions
  BY DEF Filled
<1>6. /\ r.lines = l /\ r.ready = Append(s.ready, m.block)
       /\ r.fetching = s.fetching \ {m} /\ r.fromDram = Tail(s.fromDram)
       /\ r.icnt = s.icnt /\ r.mshr = s.mshr /\ r.miss = s.miss
       /\ r.toDram = s.toDram /\ r.reply = s.reply /\ r.tracked = s.tracked
  BY DEF Filled
<1>7. SetOfLines(r)
  <2>1. Len(s.lines) <= Ways
    BY DEF Sound, SetOfLines
  <2>2. \A i, j \in 1 .. Len(s.lines) : s.lines[i].block = s.lines[j].block => i = j
    BY DEF Sound, SetOfLines
  <2>3. Len(l) = Len(s.lines) /\ \A i \in 1 .. Len(s.lines) : l[i].block = s.lines[i].block
    BY <1>4 DEF Fills
  <2>4. \A i, j \in 1 .. Len(l) : l[i].block = l[j].block => i = j
    BY <2>2, <2>3
  <2>5. r.lines = l /\ Len(l) <= Ways
    BY <1>6, <2>1, <2>3
  <2>6. \A i, j \in 1 .. Len(r.lines) : r.lines[i].block = r.lines[j].block => i = j
    BY <2>4, <2>5
  <2>7. Len(r.lines) <= Ways
    BY <2>5
  <2> QED BY <2>6, <2>7 DEF SetOfLines
<1>8. Reserves(r)
  <2> SUFFICES ASSUME NEW x \in s.fetching, x # m PROVE IsReserved(r, x.block)
    BY <1>6 DEF Reserves
  <2>1. x.block # m.block
    BY <1>1, FetchesDiffer
  <2>2. PICK i \in 1 .. Len(s.lines) : s.lines[i].block = x.block /\ s.lines[i].status = "reserved"
    BY DEF Sound, Reserves, IsReserved
  <2>3. l[i] = s.lines[i]
    BY <1>4, <2>1, <2>2 DEF Fills
  <2>4. Len(l) = Len(s.lines)
    BY <1>4 DEF Fills
  <2>5. i \in 1 .. Len(l) /\ l[i].block = x.block /\ l[i].status = "reserved"
    BY <2>2, <2>3, <2>4
  <2>6. r.lines = l
    BY <1>6
  <2>7. i \in 1 .. Len(r.lines) /\ r.lines[i].block = x.block /\ r.lines[i].status = "reserved"
    BY <2>5, <2>6
  <2> QED BY <2>7 DEF IsReserved
<1>9. Matches(r)
  BY <1>1, <1>6, MatchesFilled
<1>10. Limits(r)
  BY <1>6 DEF Sound, Limits
<1>11. Sizes(r)
  <2>1. Len(s.fromDram) \in Nat /\ Len(s.fromDram) <= QueueSize
    BY <1>2 DEF Sound, Sizes
  <2>2. Len(r.fromDram) <= QueueSize
    BY <1>3, <1>6, <2>1, L2Assumption
  <2> QED BY <1>6, <2>2 DEF Sound, Sizes
<1>12. Placed(Containers(r, d, e), r.fetching, a)
  <2> PICK f \in SUBSET Waiting : f = s.fetching
    BY <1>2
  <2>1. 6 \in 1 .. 8
    OBVIOUS
  <2>2. Others(Containers(s, d, e), Containers(r, d, e), 6, 6)
    BY <1>6, <2>1, OthersAre
  <2> PICK c, k : c = Containers(s, d, e) /\ k = Containers(r, d, e)
    OBVIOUS
  <2>3. c[6] = s.fromDram
    BY ContainersAre
  <2>4. k[6] = r.fromDram
    BY ContainersAre
  <2>5. Loses(s.fromDram, Tail(s.fromDram), m)
    BY TailLoses, <1>2
  <2>6. Loses(c[6], k[6], m)
    BY <1>6, <2>3, <2>4, <2>5
  <2>7. Placed(c, f, a) /\ Others(c, k, 6, 6)
    BY <2>2 DEF Sound
  <2>8. Placed(k, f \ {m}, a)
    BY PlacedFilled, <2>6, <2>7
  <2> QED BY <1>6, <2>8
<1>13. Tracks(r, e, a)
  BY <1>6 DEF Sound, Tracks
<1> QED BY <1>5, <1>7, <1>8, <1>9, <1>10, <1>11, <1>12, <1>13 DEF Sound

\* What DRAM returns and is not fetched is a write.
LEMMA ReturnedWrite ==
  ASSUME NEW s, NEW d, NEW e, NEW a, Sound(s, d, e, a), s.fromDram # <<>>,
         Head(s.fromDram) \notin s.fetching
  PROVE  Head(s.fromDram) \in Answers /\ Head(s.fromDram).kind = "write"
<1>1. s \in SubPartitions
  BY DEF Sound
<1>2. s.fromDram \in Seq(Returning)
  BY <1>1 DEF SubPartitions
<1> PICK m : m = Head(s.fromDram)
  OBVIOUS
<1>3. m = s.fromDram[1] /\ m \in Returning /\ 1 \in DOMAIN s.fromDram
  BY <1>2, TailOf
<1>4. m \notin Waiting
  <2> SUFFICES ASSUME m \in Waiting PROVE FALSE
    OBVIOUS
  <2>1. Never(Containers(s, d, e), FetchToken(m))
    BY DEF Sound, Placed
  <2>2. 6 \in 1 .. 8
    OBVIOUS
  <2>3. ~Has(Containers(s, d, e)[6], FetchToken(m)[6])
    BY <2>1, <2>2 DEF Never
  <2>4. Containers(s, d, e)[6] = s.fromDram
    BY ContainersAre
  <2>5. FetchToken(m)[6] = {m}
    BY TokenParts
  <2> QED BY <1>3, <2>3, <2>4, <2>5 DEF Has
<1> QED BY <1>3, <1>4 DEF Returning, Waiting, Answers

\* r is s after the reply to write m.
Returned(s, r, m) ==
  /\ r \in SubPartitions
  /\ r.reply = Append(s.reply, m) /\ r.fromDram = Tail(s.fromDram)
  /\ r.icnt = s.icnt /\ r.lines = s.lines /\ r.fetching = s.fetching
  /\ r.mshr = s.mshr /\ r.ready = s.ready /\ r.miss = s.miss
  /\ r.tracked = s.tracked /\ r.toDram = s.toDram

LEMMA ReturnFields ==
  ASSUME NEW s \in SubPartitions, s.fromDram # <<>>, NEW m \in Answers
  PROVE  Returned(s, [s EXCEPT !.reply = Append(@, m), !.fromDram = Tail(@)], m)
<1>1. s.fromDram \in Seq(Returning) /\ s.reply \in Seq(Answers)
  BY DEF SubPartitions
<1>2. Tail(s.fromDram) \in Seq(Returning) /\ Append(s.reply, m) \in Seq(Answers)
  BY <1>1, TailOf, AppendOf
<1> QED BY <1>2 DEF SubPartitions, Returned

\* In particular when an answer of the memory becomes one of the cache.
LEMMA PlacedAnswer ==
  ASSUME NEW c, NEW k, NEW f \in SUBSET Waiting, NEW a \in 0 .. MaxRequests, NEW m,
         Moves(c, k, 6, m, 7, m), Placed(c, f, a)
  PROVE  Placed(k, f, a)
<1>1. 6 \in 1 .. 8 /\ 7 \in 1 .. 8
  OBVIOUS
<1> QED BY <1>1, PlacedMoves

LEMMA ReturnSound ==
  ASSUME Config, NEW s, NEW d, NEW e, NEW a \in 0 .. MaxRequests, Sound(s, d, e, a),
         s.fromDram # <<>>, NEW m \in Answers, m = Head(s.fromDram), m.kind = "write",
         Room(s.reply), NEW r, Returned(s, r, m)
  PROVE  Sound(r, d, e, a)
<1>1. s \in SubPartitions
  BY DEF Sound
<1>2. /\ s.fromDram \in Seq(Returning) /\ s.fetching \in SUBSET Waiting
      /\ s.reply \in Seq(Answers)
  BY <1>1 DEF SubPartitions
<1>3. /\ r \in SubPartitions
      /\ r.reply = Append(s.reply, m) /\ r.fromDram = Tail(s.fromDram)
      /\ r.icnt = s.icnt /\ r.lines = s.lines /\ r.fetching = s.fetching
      /\ r.mshr = s.mshr /\ r.ready = s.ready /\ r.miss = s.miss
      /\ r.tracked = s.tracked /\ r.toDram = s.toDram
  BY DEF Returned
<1>4. SetOfLines(r)
  BY <1>3 DEF Sound, SetOfLines
<1>5. Reserves(r)
  BY <1>3 DEF Sound, Reserves, IsReserved
<1>6. Matches(r)
  BY <1>3 DEF Sound, Matches
<1>7. Limits(r)
  BY <1>3 DEF Sound, Limits
<1>8. Sizes(r)
  <2>1. Len(r.reply) <= QueueSize
    <3>1. Len(s.reply) \in Nat /\ Len(s.reply) < QueueSize
      BY <1>2 DEF Room
    <3>2. Len(Append(s.reply, m)) = Len(s.reply) + 1
      BY <1>2
    <3> QED BY <1>3, <3>1, <3>2, L2Assumption
  <2>2. Len(r.fromDram) <= QueueSize
    <3>1. Len(s.fromDram) \in Nat /\ Len(s.fromDram) <= QueueSize
      BY <1>2 DEF Sound, Sizes
    <3>2. Len(Tail(s.fromDram)) = Len(s.fromDram) - 1
      BY <1>2
    <3> QED BY <1>3, <3>1, <3>2, L2Assumption
  <2> QED BY <1>3, <2>1, <2>2 DEF Sound, Sizes
<1>9. Placed(Containers(r, d, e), r.fetching, a)
  <2> PICK f \in SUBSET Waiting : f = s.fetching
    BY <1>2
  <2>1. 6 \in 1 .. 8 /\ 7 \in 1 .. 8 /\ 6 # 7
    OBVIOUS
  <2>2. Others(Containers(s, d, e), Containers(r, d, e), 6, 7)
    BY <1>3, <2>1, OthersAre
  <2> PICK c, k : c = Containers(s, d, e) /\ k = Containers(r, d, e)
    OBVIOUS
  <2>3. c[6] = s.fromDram /\ c[7] = s.reply
    BY ContainersAre
  <2>4. k[6] = r.fromDram /\ k[7] = r.reply
    BY ContainersAre
  <2>5. Loses(s.fromDram, Tail(s.fromDram), m)
    BY TailLoses, <1>2
  <2>6. Gains(s.reply, Append(s.reply, m), m)
    BY AppendGains, <1>2
  <2>7. Loses(c[6], k[6], m)
    BY <1>3, <2>3, <2>4, <2>5
  <2>8. Gains(c[7], k[7], m)
    BY <1>3, <2>3, <2>4, <2>6
  <2>9. Placed(c, f, a) /\ Others(c, k, 6, 7)
    BY <2>2 DEF Sound
  <2>10. Passes(m, 6, m, 7)
    BY PassesAre DEF Answers
  <2>11. Moves(c, k, 6, m, 7, m)
    BY <2>1, <2>7, <2>9, <2>10, <2>8 DEF Moves
  <2>12. Placed(k, f, a)
    BY PlacedAnswer, <2>1, <2>9, <2>11, Zenon
  <2> QED BY <1>3, <2>12
<1>10. Tracks(r, e, a)
  BY <1>3 DEF Sound, Tracks
<1> QED BY <1>3, <1>4, <1>5, <1>6, <1>7, <1>8, <1>9, <1>10 DEF Sound

LEMMA FromDramSound ==
  ASSUME Config, NEW s, NEW d, NEW e, NEW a \in 0 .. MaxRequests, Sound(s, d, e, a),
         NEW port \in BOOLEAN
  PROVE  Sound(FromDram(s, port), d, e, a)
<1> PICK m : m = Head(s.fromDram)
  OBVIOUS
<1>1. CASE s.fromDram = <<>>
  BY <1>1 DEF FromDram
<1>2. CASE s.fromDram # <<>> /\ m \in s.fetching
  <2>1. CASE port
    <3> PICK r : r = [Fill(s, m) EXCEPT !.fromDram = Tail(@)]
      OBVIOUS
    <3>1. Filled(s, r, m)
      BY FillFields, <1>2 DEF Sound
    <3>2. Sound(r, d, e, a)
      BY FillSound, <1>2, <3>1
    <3>3. FromDram(s, port) = r
      BY <1>2, <2>1 DEF FromDram
    <3> QED BY <3>2, <3>3
  <2>2. CASE ~port
    BY <1>2, <2>2 DEF FromDram
  <2> QED BY <2>1, <2>2
<1>3. CASE s.fromDram # <<>> /\ m \notin s.fetching
  <2>1. m \in Answers /\ m.kind = "write"
    BY <1>3, ReturnedWrite
  <2>2. CASE Room(s.reply)
    <3> PICK r : r = [s EXCEPT !.reply = Append(@, m), !.fromDram = Tail(@)]
      OBVIOUS
    <3>1. FromDram(s, port) = r
      BY <1>3, <2>2 DEF FromDram
    <3>2. Returned(s, r, m)
      BY ReturnFields, <1>3, <2>1 DEF Sound
    <3>3. Sound(r, d, e, a)
      BY ReturnSound, <1>3, <2>1, <2>2, <3>2
    <3> QED BY <3>1, <3>3
  <2>3. CASE ~Room(s.reply)
    BY <1>3, <2>3 DEF FromDram
  <2> QED BY <2>2, <2>3
<1> QED BY <1>1, <1>2, <1>3

-----------------------------------------------------------------------------
(* DRAM and the interconnect.                                              *)

\* Only the cache's write-backs can be alike.
LEMMA BelowOnce ==
  ASSUME NEW c, NEW f \in SUBSET Waiting, NEW a \in 0 .. MaxRequests, Placed(c, f, a),
         NEW m \in Fetches, m.kind # "evict", Has(c[4], {m}), Has(c[5], {m})
  PROVE  FALSE
<1>1. 4 \in 1 .. 8 /\ 5 \in 1 .. 8
  OBVIOUS
<1>2. ASSUME NEW t, m \in t[4], m \in t[5], Once(c, t) \/ Never(c, t) PROVE FALSE
  <2>1. Has(c[4], t[4]) /\ Has(c[5], t[5])
    BY <1>2 DEF Has
  <2>2. ~Never(c, t)
    BY <1>1, <2>1 DEF Never
  <2>3. Once(c, t) => 4 = 5
    BY <1>1, <2>1 DEF Once
  <2> QED BY <1>2, <2>2, <2>3
<1>3. CASE m \in Waiting
  <2>1. Once(c, FetchToken(m)) \/ Never(c, FetchToken(m))
    BY <1>3 DEF Placed
  <2>2. m \in FetchToken(m)[4] /\ m \in FetchToken(m)[5]
    BY TokenParts
  <2> QED BY <1>2, <2>1, <2>2
<1>4. CASE m \notin Waiting
  <2>1. m \in Arriving /\ m.kind # "read" /\ m.id \in 1 .. MaxRequests
    <3>1. m.kind \in {"write", "wrbk"} /\ m.id \in 0 .. MaxRequests /\ m.id # 0
      BY <1>4 DEF Fetches, AllFetches, Waiting
    <3> QED BY <3>1, L2Assumption DEF Arriving
  <2> PICK n \in 1 .. MaxRequests : n = m.id
    BY <2>1
  <2>2. Once(c, RequestToken(n)) \/ Never(c, RequestToken(n))
    <3>1. n \in 1 .. a \/ n \in (a + 1) .. MaxRequests
      BY L2Assumption
    <3> QED BY <3>1 DEF Placed
  <2>3. m \in WritesNamed(n)
    BY <2>1 DEF WritesNamed
  <2>4. m \in RequestToken(n)[4] /\ m \in RequestToken(n)[5]
    BY <2>3, TokenParts
  <2> QED BY <1>2, <2>2, <2>4
<1> QED BY <1>3, <1>4

\* r is s after the first request has left for the memory partition.
Took(s, r) ==
  /\ r \in SubPartitions /\ r.toDram = Tail(s.toDram)
  /\ r.icnt = s.icnt /\ r.lines = s.lines /\ r.fetching = s.fetching
  /\ r.mshr = s.mshr /\ r.ready = s.ready /\ r.miss = s.miss
  /\ r.tracked = s.tracked /\ r.fromDram = s.fromDram /\ r.reply = s.reply

LEMMA TakeFields ==
  ASSUME NEW s \in SubPartitions, s.toDram # <<>>
  PROVE  Took(s, [s EXCEPT !.toDram = Tail(@)])
<1>1. s.toDram \in Seq(Fetches)
  BY DEF SubPartitions
<1>2. Tail(s.toDram) \in Seq(Fetches)
  BY <1>1, TailOf
<1> QED BY <1>2 DEF SubPartitions, Took

LEMMA TakeSound ==
  ASSUME Config, NEW s, NEW d \in SUBSET Fetches, NEW e, NEW a \in 0 .. MaxRequests,
         Sound(s, d, e, a), s.toDram # <<>>, NEW m, m = Head(s.toDram), NEW r,
         Took(s, r), NEW dd, dd = d \cup {m}
  PROVE  m \in Fetches /\ Sound(r, dd, e, a)
<1>1. s \in SubPartitions
  BY DEF Sound
<1>2. s.toDram \in Seq(Fetches) /\ s.fetching \in SUBSET Waiting
  BY <1>1 DEF SubPartitions
<1>3. Tail(s.toDram) \in Seq(Fetches) /\ m \in Fetches /\ m = s.toDram[1] /\ Len(s.toDram) >= 1
  BY <1>2, TailOf
<1>4. /\ r \in SubPartitions /\ r.toDram = Tail(s.toDram)
      /\ r.icnt = s.icnt /\ r.lines = s.lines /\ r.fetching = s.fetching
      /\ r.mshr = s.mshr /\ r.ready = s.ready /\ r.miss = s.miss
      /\ r.tracked = s.tracked /\ r.fromDram = s.fromDram /\ r.reply = s.reply
  BY DEF Took
<1>5. SetOfLines(r)
  BY <1>4 DEF Sound, SetOfLines
<1>6. Reserves(r)
  BY <1>4 DEF Sound, Reserves, IsReserved
<1>7. Matches(r)
  BY <1>4 DEF Sound, Matches
<1>8. Limits(r)
  BY <1>4 DEF Sound, Limits
<1>9. Sizes(r)
  <2>1. Len(r.toDram) <= QueueSize
    <3>1. Len(s.toDram) \in Nat /\ Len(s.toDram) <= QueueSize
      BY <1>2 DEF Sound, Sizes
    <3>2. Len(Tail(s.toDram)) = Len(s.toDram) - 1
      BY <1>2
    <3> QED BY <1>4, <3>1, <3>2, L2Assumption
  <2> QED BY <1>4, <2>1 DEF Sound, Sizes
<1>10. Placed(Containers(r, dd, e), r.fetching, a)
  <2> PICK f \in SUBSET Waiting : f = s.fetching
    BY <1>2
  <2>1. 4 \in 1 .. 8 /\ 5 \in 1 .. 8 /\ 4 # 5
    OBVIOUS
  <2>2. Others(Containers(s, d, e), Containers(r, dd, e), 4, 5)
    BY <1>4, <2>1, OthersAre
  <2>3. dd = d => Others(Containers(s, d, e), Containers(r, dd, e), 4, 4)
    BY <1>4, <2>1, OthersAre
  <2> PICK c, k : c = Containers(s, d, e) /\ k = Containers(r, dd, e)
    OBVIOUS
  <2>4. c[4] = s.toDram /\ c[5] = Loose(d)
    BY ContainersAre
  <2>5. k[4] = r.toDram /\ k[5] = Loose(dd)
    BY ContainersAre
  <2>6. Loses(s.toDram, Tail(s.toDram), m)
    BY TailLoses, <1>2
  <2>7. Loses(c[4], k[4], m)
    BY <1>4, <2>4, <2>5, <2>6
  <2>8. Placed(c, f, a)
    BY DEF Sound
  <2>9. CASE m \in d
    <3>1. dd = d
      BY <2>9
    <3>2. Has(s.toDram, {m})
      BY <1>2, <1>3 DEF Has
    <3>3. Has(Loose(d), {m})
      BY <2>9 DEF Has, Loose
    <3>4. m.kind = "evict"
      BY <1>3, <2>4, <2>8, <3>2, <3>3, BelowOnce
    <3>5. Ignored(m, 4)
      BY <1>3, <3>4, PassesAre
    <3>6. Others(c, k, 4, 4)
      BY <2>3, <3>1
    <3>7. Placed(k, f, a)
      BY <2>1, <2>7, <2>8, <3>5, <3>6, PlacedLoses
    <3> QED BY <1>4, <3>7
  <2>10. CASE m \notin d
    <3>1. Gains(c[5], k[5], m)
      BY LooseGains, <2>4, <2>5, <2>10
    <3>2. Passes(m, 4, m, 5)
      BY <1>3, PassesAre
    <3>3. Others(c, k, 4, 5)
      BY <2>2
    <3>4. Moves(c, k, 4, m, 5, m)
      BY <2>1, <2>7, <3>1, <3>2, <3>3 DEF Moves
    <3>5. Placed(k, f, a)
      BY PlacedMoves, <2>1, <2>8, <3>4
    <3> QED BY <1>4, <3>5
  <2> QED BY <2>9, <2>10
<1>11. Tracks(r, e, a)
  BY <1>4 DEF Sound, Tracks
<1> QED BY <1>3, <1>4, <1>5, <1>6, <1>7, <1>8, <1>9, <1>10, <1>11 DEF Sound

\* r is s with n no longer tracked.
Untracks(s, r, n) ==
  /\ r \in SubPartitions /\ r.tracked = s.tracked \ {n}
  /\ r.icnt = s.icnt /\ r.lines = s.lines /\ r.fetching = s.fetching
  /\ r.mshr = s.mshr /\ r.ready = s.ready /\ r.miss = s.miss
  /\ r.toDram = s.toDram /\ r.fromDram = s.fromDram /\ r.reply = s.reply

LEMMA TracksOneLess ==
  ASSUME NEW s, NEW r, NEW e \in Seq(1 .. MaxRequests), NEW a, NEW n \in 1 .. MaxRequests,
         r.tracked = s.tracked \ {n}, Tracks(s, e, a)
  PROVE  Tracks(r, Append(e, n), a)
<1> PICK k \in Nat : k = Len(e)
  OBVIOUS
<1> PICK q : q = Append(e, n)
  OBVIOUS
<1>1. Len(q) = k + 1 /\ q[k + 1] = n /\ \A i \in 1 .. k : q[i] = e[i]
  BY AppendOf
<1>2. \A i \in 1 .. (k + 1) : i \in 1 .. k \/ i = k + 1
  OBVIOUS
<1>3. \A i \in 1 .. k : i \in 1 .. (k + 1)
  OBVIOUS
<1>4. k + 1 \in 1 .. (k + 1)
  OBVIOUS
<1>5. {q[i] : i \in 1 .. (k + 1)} = {e[i] : i \in 1 .. k} \cup {n}
  BY <1>1, <1>2, <1>3, <1>4
<1>6. s.tracked = 1 .. a \ {e[i] : i \in 1 .. k}
  BY DEF Tracks
<1> QED BY <1>1, <1>5, <1>6 DEF Tracks

\* What only moves requests between the queues leaves the cache as it is.
SameCache(s, r) ==
  /\ r \in SubPartitions
  /\ r.lines = s.lines /\ r.fetching = s.fetching
  /\ r.mshr = s.mshr /\ r.ready = s.ready /\ r.miss = s.miss

LEMMA CacheSound ==
  ASSUME NEW s, NEW d, NEW e, NEW a, Sound(s, d, e, a), NEW r, SameCache(s, r),
         NEW dd, NEW ee, NEW aa, Sizes(r),
         Placed(Containers(r, dd, ee), s.fetching, aa), Tracks(r, ee, aa)
  PROVE  Sound(r, dd, ee, aa)
<1>1. r \in SubPartitions
  BY DEF SameCache
<1>2. SetOfLines(r)
  BY DEF Sound, SetOfLines, SameCache
<1>3. Reserves(r)
  BY DEF Sound, Reserves, IsReserved, SameCache
<1>4. Matches(r)
  BY DEF Sound, Matches, SameCache
<1>5. Limits(r)
  BY DEF Sound, Limits, SameCache
<1>6. Placed(Containers(r, dd, ee), r.fetching, aa)
  BY DEF SameCache
<1> QED BY <1>1, <1>2, <1>3, <1>4, <1>5, <1>6 DEF Sound

LEMMA UntracksIs ==
  ASSUME NEW s \in SubPartitions, NEW n
  PROVE  Untracks(s, [s EXCEPT !.tracked = @ \ {n}], n)
BY DEF SubPartitions, Untracks

LEMMA DeletedSound ==
  ASSUME Config, NEW s, NEW d, NEW e, NEW a \in 0 .. MaxRequests, Sound(s, d, e, a),
         NEW m \in Fetches, m.kind = "wrbk", NEW r, Untracks(s, r, m.id),
         NEW dd, Loses(Loose(d), Loose(dd), m),
         NEW ee, Gains(e, ee, m.id), Tracks(r, ee, a)
  PROVE  Sound(r, dd, ee, a)
<1>1. s \in SubPartitions
  BY DEF Sound
<1>2. s.fetching \in SUBSET Waiting
  BY <1>1 DEF SubPartitions
<1> PICK f \in SUBSET Waiting : f = s.fetching
  BY <1>2
<1>3. SameCache(s, r)
  BY DEF Untracks, SameCache
<1>4. Sizes(r)
  BY DEF Untracks, Sound, Sizes
<1>5. 5 \in 1 .. 8 /\ 8 \in 1 .. 8 /\ 5 # 8
  OBVIOUS
<1>6. Others(Containers(s, d, e), Containers(r, dd, ee), 5, 8)
  BY <1>5, OthersAre DEF Untracks
<1> PICK c, k : c = Containers(s, d, e) /\ k = Containers(r, dd, ee)
  OBVIOUS
<1>7. c[5] = Loose(d) /\ c[8] = e
  BY ContainersAre
<1>8. k[5] = Loose(dd) /\ k[8] = ee
  BY ContainersAre
<1>9. Passes(m, 5, m.id, 8)
  BY PassesAre
<1>10. Moves(c, k, 5, m, 8, m.id)
  BY <1>5, <1>6, <1>7, <1>8, <1>9 DEF Moves
<1>11. Placed(c, f, a)
  BY DEF Sound
<1>12. Placed(k, f, a)
  BY PlacedMoves, <1>5, <1>10, <1>11
<1> QED BY CacheSound, <1>3, <1>4, <1>12

LEMMA WrittenSound ==
  ASSUME Config, NEW s, NEW d, NEW e, NEW a \in 0 .. MaxRequests, Sound(s, d, e, a),
         NEW m \in Fetches, m.kind = "evict", NEW r, Untracks(s, r, m.id),
         NEW dd, Loses(Loose(d), Loose(dd), m)
  PROVE  Sound(r, dd, e, a)
<1>1. s \in SubPartitions
  BY DEF Sound
<1>2. s.fetching \in SUBSET Waiting /\ s.tracked \in SUBSET (1 .. MaxRequests)
  BY <1>1 DEF SubPartitions
<1> PICK f \in SUBSET Waiting : f = s.fetching
  BY <1>2
<1>3. SameCache(s, r)
  BY DEF Untracks, SameCache
<1>4. Sizes(r)
  BY DEF Untracks, Sound, Sizes
<1>5. 5 \in 1 .. 8
  OBVIOUS
<1>6. m.id = 0
  BY DEF Fetches
<1>7. 0 \notin s.tracked
  BY <1>2, L2Assumption
<1>8. r.tracked = s.tracked
  BY <1>6, <1>7 DEF Untracks
<1>9. Tracks(r, e, a)
  BY <1>8 DEF Sound, Tracks
<1>10. Others(Containers(s, d, e), Containers(r, dd, e), 5, 5)
  BY <1>5, OthersAre DEF Untracks
<1> PICK c, k : c = Containers(s, d, e) /\ k = Containers(r, dd, e)
  OBVIOUS
<1>11. c[5] = Loose(d)
  BY ContainersAre
<1>12. k[5] = Loose(dd)
  BY ContainersAre
<1>13. Loses(c[5], k[5], m)
  BY <1>11, <1>12
<1>14. Ignored(m, 5)
  BY PassesAre
<1>15. Placed(c, f, a) /\ Others(c, k, 5, 5)
  BY <1>10 DEF Sound
<1>16. Placed(k, f, a)
  BY PlacedLoses, <1>5, <1>13, <1>14, <1>15
<1> QED BY CacheSound, <1>3, <1>4, <1>9, <1>16

\* r is s with m back from DRAM.
Served(s, r, m) ==
  /\ r \in SubPartitions /\ r.fromDram = Append(s.fromDram, m)
  /\ r.icnt = s.icnt /\ r.lines = s.lines /\ r.fetching = s.fetching
  /\ r.mshr = s.mshr /\ r.ready = s.ready /\ r.miss = s.miss
  /\ r.toDram = s.toDram /\ r.tracked = s.tracked /\ r.reply = s.reply

LEMMA ServedIs ==
  ASSUME NEW s \in SubPartitions, NEW m \in Returning
  PROVE  Served(s, [s EXCEPT !.fromDram = Append(@, m)], m)
<1>1. Append(s.fromDram, m) \in Seq(Returning)
  BY DEF SubPartitions
<1> QED BY <1>1 DEF SubPartitions, Served

LEMMA ServedSound ==
  ASSUME Config, NEW s, NEW d \in SUBSET Fetches, NEW e, NEW a \in 0 .. MaxRequests,
         Sound(s, d, e, a), NEW m \in d, m \in Returning, Room(s.fromDram),
         NEW r, Served(s, r, m), NEW dd, dd = d \ {m}
  PROVE  Sound(r, dd, e, a)
<1>1. s \in SubPartitions
  BY DEF Sound
<1>2. s.fetching \in SUBSET Waiting /\ s.fromDram \in Seq(Returning)
  BY <1>1 DEF SubPartitions
<1> PICK f \in SUBSET Waiting : f = s.fetching
  BY <1>2
<1>3. SameCache(s, r)
  BY DEF Served, SameCache
<1>4. Sizes(r)
  <2>1. Len(s.fromDram) \in Nat /\ Len(s.fromDram) < QueueSize
    BY <1>2 DEF Room
  <2>2. Len(Append(s.fromDram, m)) = Len(s.fromDram) + 1
    BY <1>2
  <2>3. Len(r.fromDram) <= QueueSize
    BY <2>1, <2>2, L2Assumption DEF Served
  <2> QED BY <2>3 DEF Served, Sound, Sizes
<1>5. 5 \in 1 .. 8 /\ 6 \in 1 .. 8 /\ 5 # 6
  OBVIOUS
<1>6. Loses(Loose(d), Loose(dd), m)
  BY LooseLoses
<1>7. Gains(s.fromDram, Append(s.fromDram, m), m)
  BY AppendGains, <1>2
<1>8. Others(Containers(s, d, e), Containers(r, dd, e), 5, 6)
  BY <1>5, OthersAre DEF Served
<1> PICK c, k : c = Containers(s, d, e) /\ k = Containers(r, dd, e)
  OBVIOUS
<1>9. c[5] = Loose(d) /\ c[6] = s.fromDram
  BY ContainersAre
<1>10. k[5] = Loose(dd) /\ k[6] = r.fromDram
  BY ContainersAre
<1>11. Passes(m, 5, m, 6)
  BY PassesAre
<1>12. r.fromDram = Append(s.fromDram, m)
  BY DEF Served
<1>13. Moves(c, k, 5, m, 6, m)
  BY <1>5, <1>6, <1>7, <1>8, <1>9, <1>10, <1>11, <1>12 DEF Moves
<1>14. Placed(c, f, a)
  BY DEF Sound
<1>15. Placed(k, f, a)
  BY PlacedMoves, <1>5, <1>13, <1>14
<1>16. Tracks(r, e, a)
  BY DEF Served, Sound, Tracks
<1> QED BY CacheSound, <1>3, <1>4, <1>15, <1>16

\* r is s after the reply path has taken the first reply.
Popped(s, r) ==
  /\ r \in SubPartitions /\ r.reply = Tail(s.reply)
  /\ r.tracked = s.tracked \ {Head(s.reply).id}
  /\ r.icnt = s.icnt /\ r.lines = s.lines /\ r.fetching = s.fetching
  /\ r.mshr = s.mshr /\ r.ready = s.ready /\ r.miss = s.miss
  /\ r.toDram = s.toDram /\ r.fromDram = s.fromDram

LEMMA PoppedIs ==
  ASSUME NEW s \in SubPartitions, s.reply # <<>>
  PROVE  Popped(s, [s EXCEPT !.reply = Tail(@), !.tracked = @ \ {Head(s.reply).id}])
<1>1. s.reply \in Seq(Answers)
  BY DEF SubPartitions
<1>2. Tail(s.reply) \in Seq(Answers)
  BY <1>1, TailOf
<1> QED BY <1>2 DEF SubPartitions, Popped

LEMMA PoppedSound ==
  ASSUME Config, NEW s, NEW d, NEW e, NEW a \in 0 .. MaxRequests, Sound(s, d, e, a),
         s.reply # <<>>, NEW r, Popped(s, r), NEW m \in Answers, m = Head(s.reply),
         NEW ee, Gains(e, ee, m.id), Tracks(r, ee, a)
  PROVE  Sound(r, d, ee, a)
<1>1. s \in SubPartitions
  BY DEF Sound
<1>2. s.fetching \in SUBSET Waiting /\ s.reply \in Seq(Answers)
  BY <1>1 DEF SubPartitions
<1> PICK f \in SUBSET Waiting : f = s.fetching
  BY <1>2
<1>3. SameCache(s, r)
  BY DEF Popped, SameCache
<1>4. Sizes(r)
  <2>1. Len(s.reply) \in Nat /\ Len(s.reply) <= QueueSize
    BY <1>2 DEF Sound, Sizes
  <2>2. Len(Tail(s.reply)) = Len(s.reply) - 1
    BY <1>2
  <2>3. Len(r.reply) <= QueueSize
    BY <2>1, <2>2, L2Assumption DEF Popped
  <2> QED BY <2>3 DEF Popped, Sound, Sizes
<1>5. 7 \in 1 .. 8 /\ 8 \in 1 .. 8 /\ 7 # 8
  OBVIOUS
<1>6. Loses(s.reply, Tail(s.reply), m)
  BY TailLoses, <1>2
<1>7. Others(Containers(s, d, e), Containers(r, d, ee), 7, 8)
  BY <1>5, OthersAre DEF Popped
<1> PICK c, k : c = Containers(s, d, e) /\ k = Containers(r, d, ee)
  OBVIOUS
<1>8. c[7] = s.reply /\ c[8] = e
  BY ContainersAre
<1>9. k[7] = r.reply /\ k[8] = ee
  BY ContainersAre
<1>10. Passes(m, 7, m.id, 8)
  BY PassesAre DEF Answers
<1>11. r.reply = Tail(s.reply)
  BY DEF Popped
<1>12. Moves(c, k, 7, m, 8, m.id)
  BY <1>5, <1>6, <1>7, <1>8, <1>9, <1>10, <1>11 DEF Moves
<1>13. Placed(c, f, a)
  BY DEF Sound
<1>14. Placed(k, f, a)
  BY PlacedMoves, <1>5, <1>12, <1>13
<1> QED BY CacheSound, <1>3, <1>4, <1>14

\* r is s with a new request.
Received(s, r, m) ==
  /\ r \in SubPartitions /\ r.icnt = Append(s.icnt, m)
  /\ r.tracked = s.tracked \cup {m.id}
  /\ r.lines = s.lines /\ r.fetching = s.fetching
  /\ r.mshr = s.mshr /\ r.ready = s.ready /\ r.miss = s.miss
  /\ r.toDram = s.toDram /\ r.fromDram = s.fromDram /\ r.reply = s.reply

LEMMA ReceivedIs ==
  ASSUME NEW s \in SubPartitions, NEW m \in Arriving, m.id \in 1 .. MaxRequests
  PROVE  Received(s, [s EXCEPT !.icnt = Append(@, m), !.tracked = @ \cup {m.id}], m)
<1>1. s.icnt \in Seq(Arriving) /\ s.tracked \in SUBSET (1 .. MaxRequests)
  BY DEF SubPartitions
<1>2. Append(s.icnt, m) \in Seq(Arriving)
  BY <1>1, AppendOf
<1>3. s.tracked \cup {m.id} \in SUBSET (1 .. MaxRequests)
  BY <1>1
<1> QED BY <1>2, <1>3 DEF SubPartitions, Received

LEMMA ReceivedSound ==
  ASSUME Config, NEW s, NEW d, NEW e \in Seq(1 .. MaxRequests),
         NEW a \in 0 .. (MaxRequests - 1), Sound(s, d, e, a), Room(s.icnt),
         NEW m \in Arriving, m.id = a + 1, NEW r, Received(s, r, m)
  PROVE  Sound(r, d, e, a + 1)
<1>1. s \in SubPartitions
  BY DEF Sound
<1>2. s.fetching \in SUBSET Waiting /\ s.icnt \in Seq(Arriving)
  BY <1>1 DEF SubPartitions
<1> PICK f \in SUBSET Waiting : f = s.fetching
  BY <1>2
<1>3. SameCache(s, r)
  BY DEF Received, SameCache
<1>4. Sizes(r)
  <2>1. Len(s.icnt) \in Nat /\ Len(s.icnt) < QueueSize
    BY <1>2 DEF Room
  <2>2. Len(Append(s.icnt, m)) = Len(s.icnt) + 1
    BY <1>2
  <2>3. Len(r.icnt) <= QueueSize
    BY <2>1, <2>2, L2Assumption DEF Received
  <2> QED BY <2>3 DEF Received, Sound, Sizes
<1>5. 1 \in 1 .. 8
  OBVIOUS
<1>6. Gains(s.icnt, Append(s.icnt, m), m)
  BY AppendGains, <1>2
<1>7. Others(Containers(s, d, e), Containers(r, d, e), 1, 1)
  BY <1>5, OthersAre DEF Received
<1> PICK c, k : c = Containers(s, d, e) /\ k = Containers(r, d, e)
  OBVIOUS
<1>8. c[1] = s.icnt /\ c[8] = e
  BY ContainersAre
<1>9. k[1] = r.icnt
  BY ContainersAre
<1>10. r.icnt = Append(s.icnt, m)
  BY DEF Received
<1>11. Gains(c[1], k[1], m)
  BY <1>6, <1>8, <1>9, <1>10
<1>12. Placed(c, f, a) /\ Others(c, k, 1, 1)
  BY <1>7 DEF Sound
<1>13. Placed(k, f, a + 1)
  BY PlacedMade, <1>11, <1>12
<1>14. Tracks(r, e, a + 1)
  <2>1. \A i \in 1 .. Len(e) : e[i] # a + 1
    <3> SUFFICES ASSUME NEW i \in 1 .. Len(e), e[i] = a + 1 PROVE FALSE
      OBVIOUS
    <3>1. a + 1 \in (a + 1) .. MaxRequests /\ 8 \in 1 .. 8
      BY L2Assumption
    <3>2. ~Has(c[8], RequestToken(a + 1)[8])
      BY <1>12, <3>1 DEF Placed, Never
    <3>3. RequestToken(a + 1)[8] = {a + 1}
      BY TokenParts
    <3>4. DOMAIN e = 1 .. Len(e)
      OBVIOUS
    <3> QED BY <1>8, <3>2, <3>3, <3>4 DEF Has
  <2>2. s.tracked = 1 .. a \ {e[i] : i \in 1 .. Len(e)}
    BY DEF Sound, Tracks
  <2>3. r.tracked = s.tracked \cup {a + 1}
    BY DEF Received
  <2>4. 1 .. (a + 1) = 1 .. a \cup {a + 1}
    OBVIOUS
  <2>5. r.tracked = 1 .. (a + 1) \ {e[i] : i \in 1 .. Len(e)}
    BY <2>1, <2>2, <2>3, <2>4
  <2> QED BY <2>5 DEF Tracks
<1> QED BY CacheSound, <1>3, <1>4, <1>13, <1>14

-----------------------------------------------------------------------------
(* The lines of the set.                                                   *)

LEMMA LeastNatural ==
  ASSUME NEW T \in SUBSET Nat, T # {}
  PROVE  \E n \in T : \A m \in T : n <= m
<1>1. PICK top \in T : TRUE
  OBVIOUS
<1>2. IsWellFoundedOn(StrictSubsetOrdering(0 .. top), SUBSET (0 .. top))
  <2>1. IsFiniteSet(0 .. top)
    BY FS_Interval
  <2> QED BY <2>1, FS_StrictSubsetOrderingWellFounded, FS_FiniteSubsetsOfFinite
<1>3. PICK M : M = {0 .. m : m \in {k \in T : k <= top}}
  OBVIOUS
<1>4. M # {} /\ M \subseteq SUBSET (0 .. top)
  BY <1>3
<1>5. PICK x \in M :
        \A y \in M : ~(<<y, x>> \in StrictSubsetOrdering(0 .. top))
  BY <1>2, <1>4, WFMin
<1>6. PICK n \in T : n <= top /\ x = 0 .. n
  BY <1>3
<1>7. ASSUME NEW m \in T, m < n PROVE FALSE
  <2>1. 0 .. m \in M
    BY <1>3, <1>6, <1>7
  <2>2. 0 .. m \subseteq 0 .. n /\ n \in 0 .. n /\ n \notin 0 .. m
    BY <1>7
  <2>3. 0 .. m \in SUBSET (0 .. top) /\ 0 .. n \in SUBSET (0 .. top)
    BY <1>6, <1>7
  <2> QED BY <1>5, <1>6, <2>1, <2>2, <2>3 DEF StrictSubsetOrdering
<1> QED BY <1>7

DistinctBlocks(q) ==
  \A i, j \in 1 .. Len(q) : q[i].block = q[j].block => i = j

\* w is q without what is at the places of K.
Thins(q, w, K) ==
  /\ w \in Seq(CacheLines)
  /\ Len(w) = IF K = {} THEN Len(q) ELSE Len(q) - 1
  /\ \A i \in 1 .. Len(q) : i \notin K => \E j \in 1 .. Len(w) : w[j] = q[i]
  /\ \A j \in 1 .. Len(w) : \E i \in 1 .. Len(q) : i \notin K /\ w[j] = q[i]
  /\ DistinctBlocks(q) => DistinctBlocks(w)

LEMMA WithoutThins ==
  ASSUME NEW q \in Seq(CacheLines), NEW K,
         K = {} \/ \E k \in 1 .. Len(q) : K = {k}
  PROVE  Thins(q, Without(q, K), K)
<1>1. CASE K = {}
  <2>1. Without(q, K) = q
    BY <1>1 DEF Without
  <2>2. Thins(q, q, K)
    BY <1>1 DEF Thins
  <2> QED BY <2>1, <2>2
<1>2. CASE K # {}
  <2> PICK k \in 1 .. Len(q) : K = {k}
    BY <1>2
  <2> PICK n \in Nat : n = Len(q)
    OBVIOUS
  <2> PICK w : w = RemoveAt(q, k)
    OBVIOUS
  <2>1. Without(q, K) = w
    <3>1. (CHOOSE i \in K : TRUE) = k
      OBVIOUS
    <3> QED BY <1>2, <3>1 DEF Without
  <2>2. /\ w \in Seq(CacheLines) /\ Len(w) = n - 1
        /\ \A i \in 1 .. (n - 1) : w[i] = q[IF i < k THEN i ELSE i + 1]
    BY RemoveOf
  <2>3. ASSUME NEW i \in 1 .. n, i # k PROVE \E j \in 1 .. (n - 1) : w[j] = q[i]
    <3>1. CASE i < k
      <4>1. i \in 1 .. (n - 1)
        BY <3>1
      <4>2. w[i] = q[i]
        BY <2>2, <3>1, <4>1
      <4> QED BY <4>1, <4>2
    <3>2. CASE ~(i < k)
      <4>1. i - 1 \in 1 .. (n - 1) /\ ~(i - 1 < k) /\ (i - 1) + 1 = i
        BY <2>3, <3>2
      <4>2. w[i - 1] = q[(i - 1) + 1]
        BY <2>2, <4>1
      <4> QED BY <4>1, <4>2
    <3> QED BY <3>1, <3>2
  <2>4. ASSUME NEW j \in 1 .. (n - 1) PROVE \E i \in 1 .. n : i # k /\ w[j] = q[i]
    <3>1. CASE j < k
      <4>1. j \in 1 .. n /\ j # k /\ w[j] = q[j]
        BY <2>2, <3>1
      <4> QED BY <4>1
    <3>2. CASE ~(j < k)
      <4>1. j + 1 \in 1 .. n /\ j + 1 # k /\ w[j] = q[j + 1]
        BY <2>2, <3>2
      <4> QED BY <4>1
    <3> QED BY <3>1, <3>2
  <2>5. ASSUME DistinctBlocks(q) PROVE DistinctBlocks(w)
    <3> DEFINE p(i) == IF i < k THEN i ELSE i + 1
    <3>1. \A i, j \in 1 .. n : q[i].block = q[j].block => i = j
      BY <2>5 DEF DistinctBlocks
    <3>2. \A i \in 1 .. (n - 1) : p(i) \in 1 .. n /\ w[i] = q[p(i)]
      BY <2>2
    <3>3. \A i, j \in 1 .. (n - 1) : p(i) = p(j) => i = j
      OBVIOUS
    <3> HIDE DEF p
    <3>4. \A i, j \in 1 .. (n - 1) : w[i].block = w[j].block => i = j
      BY <3>1, <3>2, <3>3
    <3> QED BY <2>2, <3>4 DEF DistinctBlocks
  <2>6. K # {} /\ K = {k}
    BY <1>2
  <2>7. \A i \in 1 .. Len(q) : i \notin K => \E j \in 1 .. Len(w) : w[j] = q[i]
    BY <2>2, <2>3, <2>6
  <2>8. \A j \in 1 .. Len(w) : \E i \in 1 .. Len(q) : i \notin K /\ w[j] = q[i]
    BY <2>2, <2>4, <2>6
  <2>9. Len(w) = Len(q) - 1
    BY <2>2
  <2> QED BY <2>1, <2>2, <2>5, <2>6, <2>7, <2>8, <2>9 DEF Thins
<1> QED BY <1>1, <1>2

\* The places of block b and of the victim, at most one of all.
LEMMA PlaceOfBlock ==
  ASSUME NEW s \in SubPartitions, SetOfLines(s), NEW b
  PROVE  /\ Line(s, b) \subseteq 1 .. Len(s.lines)
         /\ \A i \in 1 .. Len(s.lines) : i \in Line(s, b) <=> s.lines[i].block = b
         /\ Line(s, b) = {} \/ \E k \in 1 .. Len(s.lines) : Line(s, b) = {k}
<1> PICK q \in Seq(CacheLines) : q = s.lines
  BY DEF SubPartitions
<1>1. DOMAIN q = 1 .. Len(q)
  OBVIOUS
<1>2. Line(s, b) = {i \in 1 .. Len(q) : q[i].block = b}
  BY <1>1 DEF Line
<1>3. \A i, j \in 1 .. Len(q) : q[i].block = q[j].block => i = j
  BY DEF SetOfLines
<1>4. ASSUME NEW k \in Line(s, b) PROVE Line(s, b) = {k}
  BY <1>2, <1>3, <1>4
<1> QED BY <1>2, <1>4

LEMMA VictimIs ==
  ASSUME NEW s \in SubPartitions, SetOfLines(s), NEW b
  PROVE  /\ \A i \in Victim(s, b) : /\ i \in 1 .. Len(s.lines)
                                    /\ s.lines[i].status # "reserved"
                                    /\ s.lines[i].block # b
         /\ Victim(s, b) = {} \/ \E k \in 1 .. Len(s.lines) : Victim(s, b) = {k}
         /\ Victim(s, b) # {} => Probe(s, b) = "miss" /\ Line(s, b) = {}
         /\ Victim(s, b) = {} /\ Probe(s, b) = "miss" => Len(s.lines) < Ways
         /\ Probe(s, b) = "miss" => Line(s, b) = {}
         /\ Probe(s, b) = "hit" =>
              \E i \in Line(s, b) : s.lines[i].status # "reserved"
         /\ Probe(s, b) = "hit reserved" => Line(s, b) # {}
<1> PICK q \in Seq(CacheLines) : q = s.lines
  BY DEF SubPartitions
<1>1. DOMAIN q = 1 .. Len(q) /\ Len(q) \in Nat
  OBVIOUS
<1>2. Replaceable(s) = {i \in 1 .. Len(q) : q[i].status # "reserved"}
  BY <1>1 DEF Replaceable
<1>3. \A i \in 1 .. Len(q) : i \in Line(s, b) <=> q[i].block = b
  BY PlaceOfBlock
<1>4. Probe(s, b) = "miss" => Line(s, b) = {} /\ (Len(q) < Ways \/ Replaceable(s) # {})
  BY DEF Probe
<1>5. /\ Probe(s, b) = "hit" => \E i \in Line(s, b) : q[i].status # "reserved"
      /\ Probe(s, b) = "hit reserved" => Line(s, b) # {}
  BY DEF Probe
<1>6. Len(q) <= Ways
  BY DEF SetOfLines
<1>7. Ways \in Nat
  BY L2Assumption
<1>8. CASE Probe(s, b) = "miss" /\ Len(q) = Ways
  <2>1. Replaceable(s) \in SUBSET Nat /\ Replaceable(s) # {}
    BY <1>1, <1>2, <1>4, <1>7, <1>8
  <2>2. \E n \in Replaceable(s) : \A m \in Replaceable(s) : n <= m
    BY <2>1, LeastNatural
  <2> PICK k : k = CHOOSE i \in Replaceable(s) : \A j \in Replaceable(s) : i <= j
    OBVIOUS
  <2>3. k \in Replaceable(s)
    BY <2>2
  <2>4. Victim(s, b) = {k}
    BY <1>8 DEF Victim
  <2>5. k \in 1 .. Len(q) /\ q[k].status # "reserved" /\ q[k].block # b
    BY <1>2, <1>3, <1>4, <1>8, <2>3
  <2> QED BY <1>4, <1>8, <2>4, <2>5
<1>9. CASE ~(Probe(s, b) = "miss" /\ Len(q) = Ways)
  <2>1. Victim(s, b) = {}
    BY <1>9 DEF Victim
  <2>2. Probe(s, b) = "miss" => Len(q) < Ways
    BY <1>1, <1>6, <1>7, <1>9
  <2> QED BY <1>4, <1>5, <2>1, <2>2
<1> QED BY <1>8, <1>9

\* w is a set of lines without block b, or with b in its place or the victim's:
\* the lines of other blocks stay, but for the victim.
Keeps(s, w, b) ==
  /\ w \in Seq(CacheLines) /\ Len(w) <= Ways /\ DistinctBlocks(w)
  /\ \A i \in 1 .. Len(s.lines) :
       s.lines[i].block # b /\ i \notin Victim(s, b)
         => \E j \in 1 .. Len(w) : w[j] = s.lines[i]

LEMMA LengthOf ==
  ASSUME NEW S, NEW q \in Seq(S)
  PROVE  Len(q) \in Nat /\ DOMAIN q = 1 .. Len(q)
OBVIOUS

LEMMA LessOne ==
  ASSUME NEW m \in Nat, NEW n \in Nat, m < n
  PROVE  m + 1 <= n
OBVIOUS

\* What the lines are when one is added to those that stay.
AppendsTo(q, u, x, K) ==
  /\ u \in Seq(CacheLines) /\ DistinctBlocks(u)
  /\ Len(u) = IF K = {} THEN Len(q) + 1 ELSE Len(q)
  /\ \E j \in 1 .. Len(u) : u[j] = x
  /\ \A i \in 1 .. Len(q) : i \notin K => \E j \in 1 .. Len(u) : u[j] = q[i]

\* u is w with line x added; w is q without what is at the places of K.
LEMMA AppendThins ==
  ASSUME NEW q \in Seq(CacheLines), DistinctBlocks(q), NEW K, NEW w, Thins(q, w, K),
         NEW x \in CacheLines,
         \A i \in 1 .. Len(q) : q[i].block = x.block => i \in K
  PROVE  AppendsTo(q, Append(w, x), x, K)
<1>1. w \in Seq(CacheLines)
  BY DEF Thins
<1> PICK k \in Nat : k = Len(w)
  BY <1>1
<1>2. Len(q) \in Nat
  OBVIOUS
<1> PICK n \in Nat : n = Len(q)
  BY <1>2
<1> PICK u : u = Append(w, x)
  OBVIOUS
<1>3. /\ u \in Seq(CacheLines) /\ Len(u) = k + 1
      /\ u[k + 1] = x /\ \A i \in 1 .. k : u[i] = w[i]
  BY <1>1, AppendOf
<1>4. k = IF K = {} THEN n ELSE n - 1
  BY DEF Thins
<1>5. \A j \in 1 .. k : \E i \in 1 .. n : i \notin K /\ w[j] = q[i]
  BY DEF Thins
<1>6. \A j \in 1 .. k : w[j].block # x.block
  BY <1>5
<1>7. \A i, j \in 1 .. k : w[i].block = w[j].block => i = j
  BY DEF Thins, DistinctBlocks
<1>8. \A i \in 1 .. (k + 1) : i \in 1 .. k \/ i = k + 1
  OBVIOUS
<1>9. k + 1 \in 1 .. (k + 1) /\ \A i \in 1 .. k : i \in 1 .. (k + 1)
  OBVIOUS
<1>10. \A i, j \in 1 .. (k + 1) : u[i].block = u[j].block => i = j
  <2> SUFFICES ASSUME NEW i \in 1 .. (k + 1), NEW j \in 1 .. (k + 1),
                      u[i].block = u[j].block
               PROVE  i = j
    OBVIOUS
  <2>1. CASE i \in 1 .. k /\ j \in 1 .. k
    BY <1>3, <1>7, <2>1
  <2>2. CASE i = k + 1 /\ j \in 1 .. k
    BY <1>3, <1>6, <2>2
  <2>3. CASE i \in 1 .. k /\ j = k + 1
    BY <1>3, <1>6, <2>3
  <2> QED BY <1>8, <2>1, <2>2, <2>3
<1>11. DistinctBlocks(u)
  BY <1>3, <1>10 DEF DistinctBlocks
<1>12. \A i \in 1 .. n : i \notin K => \E j \in 1 .. k : w[j] = q[i]
  BY DEF Thins
<1>13. \A i \in 1 .. n : i \notin K => \E j \in 1 .. (k + 1) : u[j] = q[i]
  BY <1>3, <1>9, <1>12
<1>14. \E j \in 1 .. (k + 1) : u[j] = x
  BY <1>3, <1>9
<1>15. Len(u) = IF K = {} THEN n + 1 ELSE n
  BY <1>3, <1>4
<1>16. u \in Seq(CacheLines) /\ Len(u) = k + 1
  BY <1>3
<1>17. AppendsTo(q, u, x, K)
  BY <1>11, <1>13, <1>14, <1>15, <1>16 DEF AppendsTo
<1> QED BY <1>17

HasLine(w, b, st) ==
  \E j \in 1 .. Len(w) : w[j].block = b /\ w[j].status = st

LEMMA UseKeeps ==
  ASSUME NEW s \in SubPartitions, SetOfLines(s), NEW b \in Blocks,
         NEW st \in Statuses, Probe(s, b) # "reservation fail"
  PROVE  /\ Keeps(s, Use(s, b, st).lines, b)
         /\ HasLine(Use(s, b, st).lines, b, st)
<1> PICK q \in Seq(CacheLines) : q = s.lines
  BY DEF SubPartitions
<1> PICK n \in Nat : n = Len(q)
  BY LengthOf
<1>1. Line(s, b) = {} \/ \E k \in 1 .. n : Line(s, b) = {k}
  BY PlaceOfBlock
<1>2. /\ Victim(s, b) = {} \/ \E k \in 1 .. n : Victim(s, b) = {k}
      /\ Victim(s, b) # {} => Line(s, b) = {}
  BY VictimIs
<1>3. \A i \in 1 .. n : i \in Line(s, b) <=> q[i].block = b
  BY PlaceOfBlock
<1>4. DistinctBlocks(q)
  BY DEF SetOfLines, DistinctBlocks
<1> PICK K : K = Line(s, b) \cup Victim(s, b)
  OBVIOUS
<1>5. K = {} \/ \E k \in 1 .. n : K = {k}
  BY <1>1, <1>2
<1> PICK w : w = Without(q, K)
  OBVIOUS
<1>6. Thins(q, w, K)
  BY <1>5, WithoutThins
<1>7. n < Ways \/ K # {}
  <2> SUFFICES ASSUME K = {} PROVE n < Ways
    OBVIOUS
  <2>1. Line(s, b) = {} /\ Victim(s, b) = {}
    OBVIOUS
  <2>2. Probe(s, b) \in {"miss", "hit", "hit reserved", "reservation fail"}
    BY DEF Probe
  <2>3. Probe(s, b) = "miss"
    BY <2>1, <2>2, VictimIs
  <2> QED BY <2>1, <2>3, VictimIs
<1>8. n <= Ways /\ Ways \in Nat
  BY L2Assumption DEF SetOfLines
<1>9. [block |-> b, status |-> st] \in CacheLines
  BY DEF CacheLines
<1> PICK x \in CacheLines : x = [block |-> b, status |-> st]
  BY <1>9
<1>10. x.block = b /\ x.status = st
  OBVIOUS
<1> PICK u : u = Append(w, x)
  OBVIOUS
<1>11. Use(s, b, st).lines = u
  BY DEF Use, SubPartitions
<1>12. \A i \in 1 .. n : q[i].block = x.block => i \in K
  BY <1>3, <1>10
<1>13. AppendsTo(q, u, x, K)
  BY <1>4, <1>6, <1>12, AppendThins
<1>14. /\ u \in Seq(CacheLines) /\ DistinctBlocks(u)
       /\ Len(u) = IF K = {} THEN n + 1 ELSE n
       /\ \E j \in 1 .. Len(u) : u[j] = x
       /\ \A i \in 1 .. n : i \notin K => \E j \in 1 .. Len(u) : u[j] = q[i]
  BY <1>13 DEF AppendsTo
<1>15. Len(u) <= Ways
  <2>1. Len(u) = n \/ (n < Ways /\ Len(u) = n + 1)
    BY <1>7, <1>14
  <2>2. n < Ways => n + 1 <= Ways
    BY <1>8, LessOne
  <2> QED BY <1>8, <2>1, <2>2
<1>16. ASSUME NEW i \in 1 .. n, q[i].block # b, i \notin Victim(s, b)
       PROVE  i \notin K
  BY <1>3, <1>16
<1>17. \A i \in 1 .. n : q[i].block # b /\ i \notin Victim(s, b)
         => \E j \in 1 .. Len(u) : u[j] = q[i]
  BY <1>14, <1>16
<1>18. Keeps(s, u, b)
  BY <1>14, <1>15, <1>17 DEF Keeps
<1>19. HasLine(u, b, st)
  <2>1. PICK j \in 1 .. Len(u) : u[j] = x
    BY <1>14
  <2>2. u[j].block = b /\ u[j].status = st
    BY <1>10, <2>1
  <2> QED BY <2>2 DEF HasLine
<1> QED BY <1>11, <1>18, <1>19

\* wr_hit_we(): the line is invalidated.
LEMMA EvictKeeps ==
  ASSUME NEW s \in SubPartitions, SetOfLines(s), NEW b \in Blocks
  PROVE  Keeps(s, Without(s.lines, Line(s, b)), b)
<1> PICK q \in Seq(CacheLines) : q = s.lines
  BY DEF SubPartitions
<1> PICK n \in Nat : n = Len(q)
  BY LengthOf
<1> PICK w : w = Without(q, Line(s, b))
  OBVIOUS
<1>1. Line(s, b) = {} \/ \E k \in 1 .. n : Line(s, b) = {k}
  BY PlaceOfBlock
<1>2. Thins(q, w, Line(s, b))
  BY <1>1, WithoutThins
<1>3. w \in Seq(CacheLines) /\ Len(w) <= n
  BY <1>2 DEF Thins
<1>4. Len(w) <= Ways
  BY <1>3, L2Assumption DEF SetOfLines
<1>5. DistinctBlocks(q)
  BY DEF SetOfLines, DistinctBlocks
<1>6. DistinctBlocks(w)
  BY <1>2, <1>5 DEF Thins
<1>7. \A i \in 1 .. n : i \in Line(s, b) <=> q[i].block = b
  BY PlaceOfBlock
<1>8. \A i \in 1 .. n : q[i].block # b => \E j \in 1 .. Len(w) : w[j] = q[i]
  BY <1>2, <1>7 DEF Thins
<1>9. Keeps(s, w, b)
  BY <1>3, <1>4, <1>6, <1>8 DEF Keeps
<1> QED BY <1>9

\* A line that is reserved for another block stays reserved.
LEMMA KeepsReserved ==
  ASSUME NEW s \in SubPartitions, SetOfLines(s), NEW r, NEW b,
         Keeps(s, r.lines, b), NEW c, c # b, IsReserved(s, c)
  PROVE  IsReserved(r, c)
<1>1. PICK i \in 1 .. Len(s.lines) :
        s.lines[i].block = c /\ s.lines[i].status = "reserved"
  BY DEF IsReserved
<1>2. i \notin Victim(s, b)
  BY <1>1, VictimIs
<1>3. PICK j \in 1 .. Len(r.lines) : r.lines[j] = s.lines[i]
  BY <1>1, <1>2 DEF Keeps
<1> QED BY <1>1, <1>3 DEF IsReserved

\* What is hit is not being fetched.
LEMMA HitNotFetched ==
  ASSUME NEW s \in SubPartitions, SetOfLines(s), Reserves(s), NEW b,
         Probe(s, b) = "hit"
  PROVE  \A m \in s.fetching : m.block # b
<1> SUFFICES ASSUME NEW m \in s.fetching, m.block = b PROVE FALSE
  OBVIOUS
<1>1. PICK i \in 1 .. Len(s.lines) :
        s.lines[i].block = b /\ s.lines[i].status = "reserved"
  BY DEF Reserves, IsReserved
<1>2. PICK j \in Line(s, b) : s.lines[j].status # "reserved"
  BY VictimIs
<1>3. j \in 1 .. Len(s.lines) /\ s.lines[j].block = b
  BY <1>2, PlaceOfBlock
<1>4. i = j
  BY <1>1, <1>3 DEF SetOfLines
<1> QED BY <1>1, <1>2, <1>4

LEMMA HitKeeps ==
  ASSUME NEW s \in SubPartitions, SetOfLines(s), Reserves(s), NEW b, NEW r,
         Probe(s, b) = "hit", Keeps(s, r.lines, b), r.fetching = s.fetching
  PROVE  SetOfLines(r) /\ Reserves(r)
<1>1. SetOfLines(r)
  BY DEF Keeps, SetOfLines, DistinctBlocks
<1>2. ASSUME NEW m \in r.fetching PROVE IsReserved(r, m.block)
  <2>1. m.block # b
    BY HitNotFetched
  <2>2. IsReserved(s, m.block)
    BY DEF Reserves
  <2> QED BY <2>1, <2>2, KeepsReserved
<1> QED BY <1>1, <1>2 DEF Reserves

-----------------------------------------------------------------------------
(* An access that is answered, or sent below the cache.                    *)

\* The entries, and what is being fetched, stay.
SameEntries(s, r) ==
  /\ r \in SubPartitions
  /\ r.fetching = s.fetching /\ r.mshr = s.mshr /\ r.ready = s.ready
  /\ r.toDram = s.toDram /\ r.fromDram = s.fromDram

LEMMA EntriesSound ==
  ASSUME NEW s, NEW d, NEW e, NEW a, Sound(s, d, e, a), NEW r, SameEntries(s, r),
         SetOfLines(r), Reserves(r), Sizes(r), NEW ee,
         Placed(Containers(r, d, ee), s.fetching, a), Tracks(r, ee, a)
  PROVE  Sound(r, d, ee, a)
<1>1. r \in SubPartitions
  BY DEF SameEntries
<1>2. Matches(r)
  BY DEF Sound, Matches, SameEntries
<1>3. Limits(r)
  BY DEF Sound, Limits, SameEntries
<1>4. Placed(Containers(r, d, ee), r.fetching, a)
  BY DEF SameEntries
<1> QED BY <1>1, <1>2, <1>3, <1>4 DEF Sound

\* The first request is answered.
Answered(s, r, m) ==
  /\ SameEntries(s, r)
  /\ r.icnt = Tail(s.icnt) /\ r.reply = Append(s.reply, m)
  /\ r.miss = s.miss /\ r.tracked = s.tracked

LEMMA AnsweredSound ==
  ASSUME Config, NEW s, NEW d, NEW e, NEW a \in 0 .. MaxRequests, Sound(s, d, e, a),
         s.icnt # <<>>, NEW m \in Answers, m = Head(s.icnt), Room(s.reply),
         NEW r, Answered(s, r, m), SetOfLines(r), Reserves(r)
  PROVE  Sound(r, d, e, a)
<1>1. s \in SubPartitions /\ SameEntries(s, r)
  BY DEF Sound, Answered
<1>2. /\ s.fetching \in SUBSET Waiting /\ s.reply \in Seq(Answers)
      /\ s.icnt \in Seq(Arriving)
  BY <1>1 DEF SubPartitions
<1> PICK f \in SUBSET Waiting : f = s.fetching
  BY <1>2
<1>3. Sizes(r)
  <2>1. Len(s.reply) \in Nat /\ Len(s.reply) < QueueSize
    BY <1>2 DEF Room
  <2>2. Len(Append(s.reply, m)) = Len(s.reply) + 1
    BY <1>2
  <2>3. Len(r.reply) <= QueueSize
    BY <2>1, <2>2, L2Assumption DEF Answered
  <2>4. Len(s.icnt) \in Nat /\ Len(s.icnt) <= QueueSize
    BY <1>2 DEF Sound, Sizes
  <2>5. Len(Tail(s.icnt)) = Len(s.icnt) - 1
    BY <1>2
  <2>6. Len(r.icnt) <= QueueSize
    BY <2>4, <2>5, L2Assumption DEF Answered
  <2> QED BY <2>3, <2>6 DEF Answered, SameEntries, Sound, Sizes
<1>4. 1 \in 1 .. 8 /\ 7 \in 1 .. 8 /\ 1 # 7
  OBVIOUS
<1>5. Loses(s.icnt, Tail(s.icnt), m)
  BY TailLoses, <1>2
<1>6. Gains(s.reply, Append(s.reply, m), m)
  BY AppendGains, <1>2
<1>7. Others(Containers(s, d, e), Containers(r, d, e), 1, 7)
  BY <1>4, OthersAre DEF Answered, SameEntries
<1> PICK c, k : c = Containers(s, d, e) /\ k = Containers(r, d, e)
  OBVIOUS
<1>8. c[1] = s.icnt /\ c[7] = s.reply
  BY ContainersAre
<1>9. k[1] = r.icnt /\ k[7] = r.reply
  BY ContainersAre
<1>10. Passes(m, 1, m, 7)
  BY PassesAre DEF Answers
<1>11. r.icnt = Tail(s.icnt) /\ r.reply = Append(s.reply, m)
  BY DEF Answered
<1>12. Moves(c, k, 1, m, 7, m)
  BY <1>4, <1>5, <1>6, <1>7, <1>8, <1>9, <1>10, <1>11 DEF Moves
<1>13. Placed(c, f, a)
  BY DEF Sound
<1>14. Placed(k, f, a)
  BY PlacedMoves, <1>4, <1>12, <1>13
<1>15. Tracks(r, e, a)
  BY DEF Answered, Sound, Tracks
<1> QED BY EntriesSound, <1>1, <1>3, <1>14, <1>15

\* The first request is a write-back that ends in the cache.
Absorbed(s, r, m) ==
  /\ SameEntries(s, r)
  /\ r.icnt = Tail(s.icnt) /\ r.tracked = s.tracked \ {m.id}
  /\ r.miss = s.miss /\ r.reply = s.reply

LEMMA AbsorbedSound ==
  ASSUME Config, NEW s, NEW d, NEW e, NEW a \in 0 .. MaxRequests, Sound(s, d, e, a),
         s.icnt # <<>>, NEW m \in Arriving, m = Head(s.icnt), m.kind = "wrbk",
         NEW r, Absorbed(s, r, m), SetOfLines(r), Reserves(r),
         NEW ee, Gains(e, ee, m.id), Tracks(r, ee, a)
  PROVE  Sound(r, d, ee, a)
<1>1. s \in SubPartitions /\ SameEntries(s, r)
  BY DEF Sound, Absorbed
<1>2. s.fetching \in SUBSET Waiting /\ s.icnt \in Seq(Arriving)
  BY <1>1 DEF SubPartitions
<1> PICK f \in SUBSET Waiting : f = s.fetching
  BY <1>2
<1>3. Sizes(r)
  <2>1. Len(s.icnt) \in Nat /\ Len(s.icnt) <= QueueSize
    BY <1>2 DEF Sound, Sizes
  <2>2. Len(Tail(s.icnt)) = Len(s.icnt) - 1
    BY <1>2
  <2>3. Len(r.icnt) <= QueueSize
    BY <2>1, <2>2, L2Assumption DEF Absorbed
  <2> QED BY <2>3 DEF Absorbed, SameEntries, Sound, Sizes
<1>4. 1 \in 1 .. 8 /\ 8 \in 1 .. 8 /\ 1 # 8
  OBVIOUS
<1>5. Loses(s.icnt, Tail(s.icnt), m)
  BY TailLoses, <1>2
<1>6. Others(Containers(s, d, e), Containers(r, d, ee), 1, 8)
  BY <1>4, OthersAre DEF Absorbed, SameEntries
<1> PICK c, k : c = Containers(s, d, e) /\ k = Containers(r, d, ee)
  OBVIOUS
<1>7. c[1] = s.icnt /\ c[8] = e
  BY ContainersAre
<1>8. k[1] = r.icnt /\ k[8] = ee
  BY ContainersAre
<1>9. Passes(m, 1, m.id, 8)
  BY PassesAre DEF Arriving
<1>10. r.icnt = Tail(s.icnt)
  BY DEF Absorbed
<1>11. Moves(c, k, 1, m, 8, m.id)
  BY <1>4, <1>5, <1>6, <1>7, <1>8, <1>9, <1>10 DEF Moves
<1>12. Placed(c, f, a)
  BY DEF Sound
<1>13. Placed(k, f, a)
  BY PlacedMoves, <1>4, <1>11, <1>12
<1> QED BY EntriesSound, <1>1, <1>3, <1>13

\* The first request, a write, is sent.
Passed(s, r, m) ==
  /\ SameEntries(s, r)
  /\ r.icnt = Tail(s.icnt) /\ r.miss = Append(s.miss, m)
  /\ r.reply = s.reply /\ r.tracked = s.tracked

LEMMA MissSize1 ==
  ASSUME NEW s \in SubPartitions, NEW n \in Nat, MissRoom(s, n)
  PROVE  Len(s.miss) \in Nat /\ Len(s.miss) + n <= MissSize
<1>1. s.miss \in Seq(Fetches)
  BY DEF SubPartitions
<1>2. Len(s.miss) \in Nat
  BY <1>1, LengthOf
<1> QED BY <1>2, L2Assumption DEF MissRoom

LEMMA PassedSound ==
  ASSUME Config, NEW s, NEW d, NEW e, NEW a \in 0 .. MaxRequests, Sound(s, d, e, a),
         s.icnt # <<>>, NEW m \in Arriving, m = Head(s.icnt), m.kind # "read",
         Len(s.miss) + 1 <= MissSize,
         NEW r, Passed(s, r, m), SetOfLines(r), Reserves(r)
  PROVE  Sound(r, d, e, a)
<1>1. s \in SubPartitions /\ SameEntries(s, r)
  BY DEF Sound, Passed
<1>2. /\ s.fetching \in SUBSET Waiting /\ s.icnt \in Seq(Arriving)
      /\ s.miss \in Seq(Fetches)
  BY <1>1 DEF SubPartitions
<1>3. m \in Fetches /\ m.kind \in {"write", "wrbk"}
  BY DEF Arriving
<1> PICK f \in SUBSET Waiting : f = s.fetching
  BY <1>2
<1>4. Sizes(r)
  <2>1. Len(Append(s.miss, m)) = Len(s.miss) + 1
    BY <1>2, <1>3
  <2>2. Len(r.miss) <= MissSize
    BY <2>1 DEF Passed
  <2>3. Len(s.icnt) \in Nat /\ Len(s.icnt) <= QueueSize
    BY <1>2 DEF Sound, Sizes
  <2>4. Len(Tail(s.icnt)) = Len(s.icnt) - 1
    BY <1>2
  <2>5. Len(r.icnt) <= QueueSize
    BY <2>3, <2>4, L2Assumption DEF Passed
  <2> QED BY <2>2, <2>5 DEF Passed, SameEntries, Sound, Sizes
<1>5. 1 \in 1 .. 8 /\ 3 \in 1 .. 8 /\ 1 # 3
  OBVIOUS
<1>6. Loses(s.icnt, Tail(s.icnt), m)
  BY TailLoses, <1>2
<1>7. Gains(s.miss, Append(s.miss, m), m)
  BY AppendGains, <1>2, <1>3
<1>8. Others(Containers(s, d, e), Containers(r, d, e), 1, 3)
  BY <1>5, OthersAre DEF Passed, SameEntries
<1> PICK c, k : c = Containers(s, d, e) /\ k = Containers(r, d, e)
  OBVIOUS
<1>9. c[1] = s.icnt /\ c[3] = s.miss
  BY ContainersAre
<1>10. k[1] = r.icnt /\ k[3] = r.miss
  BY ContainersAre
<1>11. Passes(m, 1, m, 3)
  BY <1>3, PassesAre
<1>12. r.icnt = Tail(s.icnt) /\ r.miss = Append(s.miss, m)
  BY DEF Passed
<1>13. Moves(c, k, 1, m, 3, m)
  BY <1>5, <1>6, <1>7, <1>8, <1>9, <1>10, <1>11, <1>12 DEF Moves
<1>14. Placed(c, f, a)
  BY DEF Sound
<1>15. Placed(k, f, a)
  BY PlacedMoves, <1>5, <1>13, <1>14
<1>16. Tracks(r, e, a)
  BY DEF Passed, Sound, Tracks
<1> QED BY EntriesSound, <1>1, <1>4, <1>15, <1>16

-----------------------------------------------------------------------------
(* An access that needs the block.                                         *)

\* v is u after send_read_request() for request x.
Requested(u, v, x) ==
  /\ v \in SubPartitions
  /\ v.lines = Use(u, x.block, "reserved").lines
  /\ Adds(u.mshr, v.mshr, x.block, x)
  /\ IF x.block \in DOMAIN u.mshr
       THEN v.miss = u.miss /\ v.fetching = u.fetching
       ELSE v.miss = Append(u.miss, x) /\ v.fetching = u.fetching \cup {x}
  /\ v.icnt = u.icnt /\ v.ready = u.ready /\ v.toDram = u.toDram
  /\ v.fromDram = u.fromDram /\ v.reply = u.reply /\ v.tracked = u.tracked

LEMMA EntryIs ==
  ASSUME NEW s \in SubPartitions, NEW b
  PROVE  /\ Entry(s, b) \in Seq(Waiting)
         /\ Entry(s, b) # <<>> <=> b \in DOMAIN s.mshr
         /\ Entry(s, b) = IF b \in DOMAIN s.mshr THEN s.mshr[b] ELSE <<>>
<1>1. s.mshr \in Tables
  BY DEF SubPartitions
<1>2. \A c \in DOMAIN s.mshr : s.mshr[c] \in Seq(Waiting) /\ s.mshr[c] # <<>>
  BY <1>1, TableOf
<1> QED BY <1>2 DEF Entry

\* u is s with the lines of the set replaced.
LEMMA UseIs ==
  ASSUME NEW s \in SubPartitions, SetOfLines(s), NEW b \in Blocks,
         NEW st \in Statuses, Probe(s, b) # "reservation fail"
  PROVE  /\ Use(s, b, st) \in SubPartitions
         /\ Use(s, b, st) = [s EXCEPT !.lines = Use(s, b, st).lines]
<1> PICK w : w = Use(s, b, st).lines
  OBVIOUS
<1>1. w \in Seq(CacheLines)
  BY UseKeeps DEF Keeps
<1>2. Use(s, b, st) = [s EXCEPT !.lines = w]
  BY DEF Use, SubPartitions
<1>3. [s EXCEPT !.lines = w] \in SubPartitions
  BY <1>1 DEF SubPartitions
<1> QED BY <1>2, <1>3

\* v is u with x in the entry of its block, and the line reserved.
Added(u, v, x) ==
  /\ v \in SubPartitions
  /\ v.lines = Use(u, x.block, "reserved").lines
  /\ Adds(u.mshr, v.mshr, x.block, x)
  /\ v.miss = u.miss /\ v.fetching = u.fetching
  /\ v.icnt = u.icnt /\ v.ready = u.ready /\ v.toDram = u.toDram
  /\ v.fromDram = u.fromDram /\ v.reply = u.reply /\ v.tracked = u.tracked

LEMMA LongerList ==
  ASSUME NEW S, NEW q \in Seq(S), NEW x \in S
  PROVE  Append(q, x) \in Seq(S) /\ Append(q, x) # <<>>
<1>1. Append(q, x) \in Seq(S) /\ Len(Append(q, x)) = Len(q) + 1 /\ Len(q) \in Nat
  BY AppendOf
<1>2. Len(Append(q, x)) # 0
  BY <1>1
<1>3. Len(<<>>) = 0
  OBVIOUS
<1> QED BY <1>1, <1>2, <1>3

LEMMA RewritesAdds ==
  ASSUME NEW s, NEW v, NEW b, NEW x, NEW q, Rewrites(s, v, b, Append(q, x)),
         Append(q, x) # <<>>, q = IF b \in DOMAIN s.mshr THEN s.mshr[b] ELSE <<>>
  PROVE  Adds(s.mshr, v.mshr, b, x)
<1>1. v.mshr \in Tables
  BY DEF Rewrites, SubPartitions
<1>2. /\ DOMAIN v.mshr = DOMAIN s.mshr \cup {b}
      /\ \A c \in DOMAIN v.mshr :
           v.mshr[c] = IF c = b THEN Append(q, x) ELSE s.mshr[c]
  BY DEF Rewrites
<1>3. v.mshr[b] = Append(q, x)
  BY <1>2
<1>4. \A c \in DOMAIN s.mshr : c # b => v.mshr[c] = s.mshr[c]
  BY <1>2
<1> QED BY <1>1, <1>2, <1>3, <1>4 DEF Adds

LEMMA AddedFields ==
  ASSUME NEW u \in SubPartitions, SetOfLines(u), NEW x \in Waiting,
         Probe(u, x.block) # "reservation fail"
  PROVE  Added(u, WithEntry(Use(u, x.block, "reserved"), x.block,
                            Append(Entry(u, x.block), x)), x)
<1> PICK b \in Blocks : b = x.block
  BY DEF Waiting, Fetches, AllFetches
<1> PICK q \in Seq(Waiting) : q = Entry(u, b)
  BY EntryIs
<1>1. Append(q, x) \in Seq(Waiting) /\ Append(q, x) # <<>>
  BY LongerList
<1> PICK t : t = Use(u, b, "reserved")
  OBVIOUS
<1>2. t \in SubPartitions /\ t = [u EXCEPT !.lines = t.lines]
  BY UseIs DEF Statuses
<1> PICK v : v = WithEntry(t, b, Append(q, x))
  OBVIOUS
<1>3. Rewrites(t, v, b, Append(q, x))
  BY <1>1, <1>2, WithEntryIs
<1>4. /\ t.mshr = u.mshr /\ t.icnt = u.icnt /\ t.ready = u.ready
      /\ t.toDram = u.toDram /\ t.fromDram = u.fromDram /\ t.reply = u.reply
      /\ t.tracked = u.tracked /\ t.miss = u.miss /\ t.fetching = u.fetching
  BY <1>2 DEF SubPartitions
<1>5. v \in SubPartitions /\ v = [t EXCEPT !.mshr = v.mshr]
  BY <1>3 DEF Rewrites
<1>6. /\ v.lines = t.lines /\ v.icnt = t.icnt /\ v.ready = t.ready
      /\ v.toDram = t.toDram /\ v.fromDram = t.fromDram /\ v.reply = t.reply
      /\ v.tracked = t.tracked /\ v.miss = t.miss /\ v.fetching = t.fetching
  BY <1>2, <1>5 DEF SubPartitions
<1>7. q = IF b \in DOMAIN u.mshr THEN u.mshr[b] ELSE <<>>
  BY EntryIs
<1>8. q = IF b \in DOMAIN t.mshr THEN t.mshr[b] ELSE <<>>
  BY <1>4, <1>7
<1>9. Adds(t.mshr, v.mshr, b, x)
  BY <1>1, <1>3, <1>8, RewritesAdds
<1>10. Adds(u.mshr, v.mshr, b, x)
  BY <1>4, <1>9
<1>11. v.lines = Use(u, b, "reserved").lines
  BY <1>6
<1>12. /\ v.icnt = u.icnt /\ v.ready = u.ready /\ v.toDram = u.toDram
       /\ v.fromDram = u.fromDram /\ v.reply = u.reply
       /\ v.tracked = u.tracked /\ v.miss = u.miss /\ v.fetching = u.fetching
  BY <1>4, <1>6
<1>13. Added(u, v, x)
  BY <1>5, <1>10, <1>11, <1>12 DEF Added
<1> QED BY <1>13

\* r is v with x sent.
Sent(v, r, x) ==
  /\ r \in SubPartitions
  /\ r.miss = Append(v.miss, x) /\ r.fetching = v.fetching \cup {x}
  /\ r.mshr = v.mshr /\ r.lines = v.lines /\ r.icnt = v.icnt
  /\ r.ready = v.ready /\ r.toDram = v.toDram /\ r.fromDram = v.fromDram
  /\ r.reply = v.reply /\ r.tracked = v.tracked

LEMMA SentFields ==
  ASSUME NEW v \in SubPartitions, NEW x \in Waiting
  PROVE  Sent(v, [Send(v, x) EXCEPT !.fetching = @ \cup {x}], x)
<1>1. v.miss \in Seq(Fetches) /\ v.fetching \in SUBSET Waiting
  BY DEF SubPartitions
<1>2. x \in Fetches
  BY DEF Waiting
<1>3. Append(v.miss, x) \in Seq(Fetches)
  BY <1>1, <1>2, LongerList
<1>4. v.fetching \cup {x} \in SUBSET Waiting
  BY <1>1
<1> QED BY <1>3, <1>4 DEF Sent, Send, SubPartitions

LEMMA RequestFields ==
  ASSUME NEW u \in SubPartitions, SetOfLines(u), NEW x \in Waiting,
         Probe(u, x.block) # "reservation fail"
  PROVE  Requested(u, SendRead(u, x), x)
<1> PICK v : v = WithEntry(Use(u, x.block, "reserved"), x.block,
                           Append(Entry(u, x.block), x))
  OBVIOUS
<1>1. Added(u, v, x)
  BY AddedFields
<1>2. Entry(u, x.block) # <<>> <=> x.block \in DOMAIN u.mshr
  BY EntryIs
<1>3. CASE Entry(u, x.block) # <<>>
  <2>1. SendRead(u, x) = v
    BY <1>3 DEF SendRead
  <2>2. Requested(u, v, x)
    BY <1>1, <1>2, <1>3 DEF Added, Requested
  <2> QED BY <2>1, <2>2
<1>4. CASE Entry(u, x.block) = <<>>
  <2> PICK r : r = [Send(v, x) EXCEPT !.fetching = @ \cup {x}]
    OBVIOUS
  <2>1. SendRead(u, x) = r
    BY <1>4 DEF SendRead
  <2>2. Sent(v, r, x)
    BY <1>1, SentFields DEF Added
  <2>3. Requested(u, r, x)
    BY <1>1, <1>2, <1>4, <2>2 DEF Added, Sent, Requested
  <2> QED BY <2>1, <2>3
<1> QED BY <1>3, <1>4

\* The parts of Sound that are about the cache itself.
CacheOK(s) == SetOfLines(s) /\ Reserves(s) /\ Matches(s) /\ Limits(s)

LEMMA RequestLines ==
  ASSUME NEW u \in SubPartitions, SetOfLines(u), Reserves(u), NEW x \in Waiting,
         NEW v, Requested(u, v, x), Probe(u, x.block) # "reservation fail"
  PROVE  SetOfLines(v) /\ Reserves(v)
<1> PICK b \in Blocks : b = x.block
  BY DEF Waiting, Fetches, AllFetches
<1>1. "reserved" \in Statuses
  BY DEF Statuses
<1>2. v.lines = Use(u, b, "reserved").lines
  BY DEF Requested
<1> PICK w : w = v.lines
  OBVIOUS
<1>3. Keeps(u, w, b) /\ HasLine(w, b, "reserved")
  BY <1>1, <1>2, UseKeeps
<1>4. SetOfLines(v)
  BY <1>3 DEF Keeps, SetOfLines, DistinctBlocks
<1>5. IsReserved(v, b)
  BY <1>3 DEF HasLine, IsReserved
<1>6. ASSUME NEW m \in v.fetching PROVE IsReserved(v, m.block)
  <2>1. CASE m.block = b
    BY <1>5, <2>1
  <2>2. CASE m.block # b
    <3>1. m \in u.fetching
      BY <2>2 DEF Requested
    <3>2. IsReserved(u, m.block)
      BY <3>1 DEF Reserves
    <3> QED BY <1>3, <2>2, <3>2, KeepsReserved
  <2> QED BY <2>1, <2>2
<1> QED BY <1>4, <1>6 DEF Reserves

LEMMA RequestMatches ==
  ASSUME NEW u \in SubPartitions, Matches(u), NEW x \in Waiting,
         NEW v, Requested(u, v, x)
  PROVE  Matches(v)
<1> PICK b : b = x.block
  OBVIOUS
<1> PICK f : f = u.mshr
  OBVIOUS
<1> PICK g : g = v.mshr
  OBVIOUS
<1>1. f \in Tables
  BY DEF SubPartitions
<1>2. /\ DOMAIN g = DOMAIN f \cup {b}
      /\ \A c \in DOMAIN f : c # b => g[c] = f[c]
      /\ g[b] = Append(IF b \in DOMAIN f THEN f[b] ELSE <<>>, x)
  BY DEF Requested, Adds
<1>3. v.ready = u.ready
  BY DEF Requested
<1>4. \A m \in u.fetching : m.block \in DOMAIN f /\ f[m.block][1] = m
  BY DEF Matches
<1>5. \A m \in u.fetching : g[m.block][1] = m
  <2> SUFFICES ASSUME NEW m \in u.fetching PROVE g[m.block][1] = m
    OBVIOUS
  <2>1. CASE m.block # b
    BY <1>2, <1>4, <2>1
  <2>2. CASE m.block = b
    <3>1. b \in DOMAIN f /\ f[b][1] = m
      BY <1>4, <2>2
    <3>2. f[b] \in Seq(Waiting) /\ Len(f[b]) \in Nat \ {0}
      BY <1>1, <3>1, TableOf
    <3>3. \A i \in 1 .. Len(f[b]) : Append(f[b], x)[i] = f[b][i]
      BY <3>2, AppendOf
    <3>4. 1 \in 1 .. Len(f[b])
      BY <3>2
    <3> QED BY <1>2, <2>2, <3>1, <3>3, <3>4
  <2> QED BY <2>1, <2>2
<1>6. /\ \A i, j \in 1 .. Len(u.ready) : u.ready[i] = u.ready[j] => i = j
      /\ \A i \in 1 .. Len(u.ready) : u.ready[i] \in DOMAIN f
      /\ \A i \in 1 .. Len(u.ready) : \A m \in u.fetching : u.ready[i] # m.block
      /\ \A c \in DOMAIN f :
           \/ \E i \in 1 .. Len(u.ready) : u.ready[i] = c
           \/ \E m \in u.fetching : m.block = c
  BY DEF Matches
<1>7. CASE b \in DOMAIN f
  <2>1. v.fetching = u.fetching /\ DOMAIN g = DOMAIN f
    BY <1>2, <1>7 DEF Requested
  <2> QED BY <1>3, <1>4, <1>5, <1>6, <2>1 DEF Matches
<1>8. CASE b \notin DOMAIN f
  <2>1. v.fetching = u.fetching \cup {x}
    BY <1>8 DEF Requested
  <2>2. g[b][1] = x
    <3>1. Append(<<>>, x)[1] = x
      OBVIOUS
    <3> QED BY <1>2, <1>8, <3>1
  <2>3. \A m \in v.fetching : m.block \in DOMAIN g
    BY <1>2, <1>4, <2>1
  <2>4. \A m \in v.fetching : g[m.block][1] = m
    BY <1>5, <2>1, <2>2
  <2>5. \A i \in 1 .. Len(v.ready) : v.ready[i] \in DOMAIN g
    BY <1>2, <1>3, <1>6
  <2>6. \A i \in 1 .. Len(v.ready) : \A m \in v.fetching : v.ready[i] # m.block
    BY <1>3, <1>6, <1>8, <2>1
  <2>7. \A c \in DOMAIN g :
           \/ \E i \in 1 .. Len(v.ready) : v.ready[i] = c
           \/ \E m \in v.fetching : m.block = c
    BY <1>2, <1>3, <1>6, <2>1
  <2>8. \A i, j \in 1 .. Len(v.ready) : v.ready[i] = v.ready[j] => i = j
    BY <1>3, <1>6
  <2> QED BY <2>3, <2>4, <2>5, <2>6, <2>7, <2>8 DEF Matches
<1> QED BY <1>7, <1>8

LEMMA RequestLimits ==
  ASSUME Config, NEW u \in SubPartitions, Limits(u), NEW x \in Waiting,
         NEW v, Requested(u, v, x), MshrAvail(u, x.block)
  PROVE  Limits(v)
<1> PICK b : b = x.block
  OBVIOUS
<1> PICK f : f = u.mshr
  OBVIOUS
<1> PICK g : g = v.mshr
  OBVIOUS
<1>1. f \in Tables /\ maxMerged \in Nat \ {0} /\ Entries \in Nat
  BY L2Assumption DEF SubPartitions, Config
<1>2. /\ DOMAIN g = DOMAIN f \cup {b}
      /\ \A c \in DOMAIN f : c # b => g[c] = f[c]
      /\ g[b] = Append(IF b \in DOMAIN f THEN f[b] ELSE <<>>, x)
  BY DEF Requested, Adds
<1>3. /\ IsFiniteSet(DOMAIN f) /\ Cardinality(DOMAIN f) <= Entries
      /\ \A c \in DOMAIN f : Len(f[c]) <= maxMerged
  BY DEF Limits
<1>4. /\ Entry(u, b) # <<>> <=> b \in DOMAIN f
      /\ Entry(u, b) = IF b \in DOMAIN f THEN f[b] ELSE <<>>
  BY EntryIs
<1>5. CASE b \in DOMAIN f
  <2>1. Len(f[b]) < maxMerged
    BY <1>4, <1>5 DEF MshrAvail
  <2>2. f[b] \in Seq(Waiting) /\ Len(f[b]) \in Nat
    BY <1>1, <1>5, TableOf
  <2>3. Len(Append(f[b], x)) = Len(f[b]) + 1
    BY <2>2, AppendOf
  <2>4. Len(g[b]) <= maxMerged
    BY <1>1, <1>2, <1>5, <2>1, <2>2, <2>3
  <2>5. DOMAIN g = DOMAIN f
    BY <1>2, <1>5
  <2>6. \A c \in DOMAIN g : Len(g[c]) <= maxMerged
    BY <1>2, <1>3, <2>4, <2>5
  <2> QED BY <1>3, <2>5, <2>6 DEF Limits
<1>6. CASE b \notin DOMAIN f
  <2>1. Cardinality(DOMAIN f) < Entries
    BY <1>4, <1>6 DEF MshrAvail
  <2>2. IsFiniteSet(DOMAIN g) /\ Cardinality(DOMAIN g) = Cardinality(DOMAIN f) + 1
    BY <1>2, <1>3, <1>6, FS_AddElement
  <2>3. Cardinality(DOMAIN f) \in Nat
    BY <1>3, FS_CardinalityType
  <2>4. Cardinality(DOMAIN g) <= Entries
    BY <1>1, <2>1, <2>2, <2>3
  <2>5. Len(g[b]) <= maxMerged
    <3>1. Len(Append(<<>>, x)) = 1
      OBVIOUS
    <3> QED BY <1>1, <1>2, <1>6, <3>1
  <2>6. \A c \in DOMAIN g : Len(g[c]) <= maxMerged
    BY <1>2, <1>3, <2>5
  <2> QED BY <2>2, <2>4, <2>6 DEF Limits
<1> QED BY <1>5, <1>6

LEMMA RequestCache ==
  ASSUME Config, NEW u \in SubPartitions, CacheOK(u), NEW x \in Waiting,
         NEW v, Requested(u, v, x), MshrAvail(u, x.block),
         Probe(u, x.block) # "reservation fail"
  PROVE  CacheOK(v)
BY RequestLines, RequestMatches, RequestLimits DEF CacheOK

\* Of the requests, t differs from u by more than the fetch, and r from t by the
\* fetch, if one is sent.
LEMMA RequestPlaced ==
  ASSUME NEW u \in SubPartitions, Matches(u), NEW d, NEW e, NEW a \in 0 .. MaxRequests,
         NEW x \in Waiting, NEW v, Requested(u, v, x),
         NEW t, NEW r, t.miss = u.miss, r.miss = v.miss, r.icnt = t.icnt,
         r.mshr = t.mshr, r.toDram = t.toDram, r.fromDram = t.fromDram,
         r.reply = t.reply, Placed(Containers(t, d, e), u.fetching, a)
  PROVE  Placed(Containers(r, d, e), v.fetching, a)
<1>1. u.fetching \in SUBSET Waiting /\ u.miss \in Seq(Fetches)
  BY DEF SubPartitions
<1> PICK f \in SUBSET Waiting : f = u.fetching
  BY <1>1
<1>2. 3 \in 1 .. 8
  OBVIOUS
<1>3. x \in Fetches
  BY DEF Waiting
<1>4. CASE x.block \in DOMAIN u.mshr
  <2>1. r.miss = t.miss /\ v.fetching = f
    BY <1>4 DEF Requested
  <2>2. Containers(r, d, e) = Containers(t, d, e)
    BY <2>1 DEF Containers
  <2> QED BY <2>1, <2>2
<1>5. CASE x.block \notin DOMAIN u.mshr
  <2>1. v.miss = Append(u.miss, x) /\ v.fetching = f \cup {x}
    BY <1>5 DEF Requested
  <2>2. x \notin f
    BY <1>5 DEF Matches
  <2>3. Gains(u.miss, Append(u.miss, x), x)
    BY <1>1, <1>3, AppendGains
  <2>4. Others(Containers(t, d, e), Containers(r, d, e), 3, 3)
    BY <1>2, OthersAre
  <2> PICK c, k : c = Containers(t, d, e) /\ k = Containers(r, d, e)
    OBVIOUS
  <2>5. c[3] = t.miss
    BY ContainersAre
  <2>6. k[3] = r.miss
    BY ContainersAre
  <2>7. Gains(c[3], k[3], x)
    BY <2>1, <2>3, <2>5, <2>6
  <2>8. Placed(c, f, a) /\ Others(c, k, 3, 3) /\ x \in Waiting \ f
    BY <2>2, <2>4
  <2>9. Placed(k, f \cup {x}, a)
    BY <2>7, <2>8, PlacedSent
  <2> QED BY <2>1, <2>9
<1> QED BY <1>4, <1>5

\* r is v once the access is accepted: the victim, if modified, is written back.
Accepts(v, r) ==
  /\ r \in SubPartitions
  /\ r.icnt = Tail(v.icnt)
  /\ \/ r.miss = v.miss
     \/ \E m \in Fetches : m.kind = "evict" /\ r.miss = Append(v.miss, m)
  /\ r.mshr = v.mshr /\ r.fetching = v.fetching /\ r.lines = v.lines
  /\ r.ready = v.ready /\ r.toDram = v.toDram /\ r.fromDram = v.fromDram
  /\ r.reply = v.reply /\ r.tracked = v.tracked

LEMMA WriteBackIs ==
  ASSUME NEW s \in SubPartitions, SetOfLines(s), NEW b, Evicted(s, b) # {}
  PROVE  \E i \in 1 .. Len(s.lines) :
           /\ i \in Victim(s, b) /\ s.lines[i].status = "modified"
           /\ MemFetch("evict", s.lines[i].block, 0) \in Fetches
           /\ \A v : WriteBack(v, s, b) = Send(v, MemFetch("evict", s.lines[i].block, 0))
<1>1. (CHOOSE j \in Evicted(s, b) : TRUE) \in Evicted(s, b)
  OBVIOUS
<1> PICK i : i = CHOOSE j \in Evicted(s, b) : TRUE
  OBVIOUS
<1>2. i \in Victim(s, b) /\ s.lines[i].status = "modified"
  BY <1>1 DEF Evicted
<1>3. i \in 1 .. Len(s.lines)
  BY <1>2, VictimIs
<1>4. s.lines \in Seq(CacheLines)
  BY DEF SubPartitions
<1>5. s.lines[i] \in CacheLines
  BY <1>3, <1>4
<1>6. s.lines[i].block \in Blocks
  BY <1>5 DEF CacheLines
<1>7. MemFetch("evict", s.lines[i].block, 0) \in Fetches
  BY <1>6, L2Assumption DEF MemFetch, Fetches, AllFetches
<1>8. \A v : WriteBack(v, s, b) = Send(v, MemFetch("evict", s.lines[i].block, 0))
  BY DEF WriteBack
<1> QED BY <1>2, <1>3, <1>7, <1>8

LEMMA AcceptFields ==
  ASSUME NEW s \in SubPartitions, SetOfLines(s), NEW v \in SubPartitions,
         v.icnt # <<>>, NEW b
  PROVE  Accepts(v, Accepted(WriteBack(v, s, b)))
<1>1. v.icnt \in Seq(Arriving) /\ v.miss \in Seq(Fetches)
  BY DEF SubPartitions
<1>2. Tail(v.icnt) \in Seq(Arriving)
  BY <1>1, TailOf
<1>3. CASE Evicted(s, b) = {}
  <2>1. WriteBack(v, s, b) = v
    BY <1>3 DEF WriteBack
  <2>2. Accepts(v, Accepted(v))
    BY <1>2 DEF Accepts, Accepted, SubPartitions
  <2> QED BY <2>1, <2>2
<1>4. CASE Evicted(s, b) # {}
  <2>1. PICK m \in Fetches : m.kind = "evict" /\ WriteBack(v, s, b) = Send(v, m)
    BY <1>4, WriteBackIs DEF MemFetch
  <2>2. Append(v.miss, m) \in Seq(Fetches)
    BY <1>1, LongerList
  <2> PICK r : r = Accepted(Send(v, m))
    OBVIOUS
  <2>3. /\ r \in SubPartitions
        /\ r.icnt = Tail(v.icnt) /\ r.miss = Append(v.miss, m)
        /\ r.mshr = v.mshr /\ r.fetching = v.fetching /\ r.lines = v.lines
        /\ r.ready = v.ready /\ r.toDram = v.toDram /\ r.fromDram = v.fromDram
        /\ r.reply = v.reply /\ r.tracked = v.tracked
    BY <1>2, <2>2 DEF Accepted, Send, SubPartitions
  <2>4. Accepts(v, r)
    BY <2>1, <2>3 DEF Accepts
  <2> QED BY <2>1, <2>4
<1> QED BY <1>3, <1>4

\* The requests but those of the interconnect stay at their places.
LEMMA AcceptPlaced ==
  ASSUME NEW v \in SubPartitions, NEW r, Accepts(v, r), NEW d, NEW e,
         NEW f \in SUBSET Waiting, NEW a \in 0 .. MaxRequests,
         NEW t, t.icnt = r.icnt, t.miss = v.miss, t.mshr = v.mshr,
         t.toDram = v.toDram, t.fromDram = v.fromDram, t.reply = v.reply,
         Placed(Containers(t, d, e), f, a)
  PROVE  Placed(Containers(r, d, e), f, a)
<1>1. v.miss \in Seq(Fetches) /\ 3 \in 1 .. 8
  BY DEF SubPartitions
<1>2. CASE r.miss = v.miss
  <2>1. Containers(r, d, e) = Containers(t, d, e)
    BY <1>2 DEF Accepts, Containers
  <2> QED BY <2>1
<1>3. CASE \E m \in Fetches : m.kind = "evict" /\ r.miss = Append(v.miss, m)
  <2>1. PICK m \in Fetches : m.kind = "evict" /\ r.miss = Append(v.miss, m)
    BY <1>3
  <2>2. Gains(v.miss, Append(v.miss, m), m)
    BY <1>1, AppendGains
  <2>3. Others(Containers(t, d, e), Containers(r, d, e), 3, 3)
    BY <1>1, OthersAre DEF Accepts
  <2> PICK c, k : c = Containers(t, d, e) /\ k = Containers(r, d, e)
    OBVIOUS
  <2>4. c[3] = t.miss
    BY ContainersAre
  <2>5. k[3] = r.miss
    BY ContainersAre
  <2>6. Gains(c[3], k[3], m)
    BY <2>1, <2>2, <2>4, <2>5
  <2>7. Ignored(m, 3)
    BY <2>1, PassesAre
  <2>8. Placed(c, f, a) /\ Others(c, k, 3, 3)
    BY <2>3
  <2>9. Placed(k, f, a)
    BY <1>1, <2>6, <2>7, <2>8, PlacedGains
  <2> QED BY <2>9
<1> QED BY <1>2, <1>3 DEF Accepts

LEMMA AcceptSizes ==
  ASSUME NEW s \in SubPartitions, Sizes(s), s.icnt # <<>>,
         NEW v \in SubPartitions, v.icnt = s.icnt, v.toDram = s.toDram,
         v.fromDram = s.fromDram, v.reply = s.reply, NEW r, Accepts(v, r),
         NEW n \in Nat, Len(v.miss) = n, n + 1 <= MissSize
  PROVE  Sizes(r)
<1>1. s.icnt \in Seq(Arriving) /\ v.miss \in Seq(Fetches)
  BY DEF SubPartitions
<1>2. Len(s.icnt) \in Nat /\ Len(s.icnt) <= QueueSize
  BY <1>1, LengthOf DEF Sizes
<1>3. Len(Tail(s.icnt)) = Len(s.icnt) - 1
  BY <1>1, TailOf
<1>4. Len(r.icnt) <= QueueSize
  BY <1>2, <1>3, L2Assumption DEF Accepts
<1>5. Len(r.miss) <= MissSize
  <2>1. CASE r.miss = v.miss
    BY <2>1, L2Assumption
  <2>2. ASSUME NEW m \in Fetches, r.miss = Append(v.miss, m)
        PROVE  Len(r.miss) <= MissSize
    <3>1. Len(Append(v.miss, m)) = Len(v.miss) + 1
      BY <1>1, AppendOf
    <3> QED BY <2>2, <3>1
  <2> QED BY <2>1, <2>2 DEF Accepts
<1> QED BY <1>4, <1>5 DEF Accepts, Sizes

LEMMA AcceptCache ==
  ASSUME NEW v, CacheOK(v), NEW r, Accepts(v, r)
  PROVE  CacheOK(r)
<1>1. SetOfLines(r)
  BY DEF Accepts, CacheOK, SetOfLines
<1>2. Reserves(r)
  BY DEF Accepts, CacheOK, Reserves, IsReserved
<1>3. Matches(r)
  BY DEF Accepts, CacheOK, Matches
<1>4. Limits(r)
  BY DEF Accepts, CacheOK, Limits
<1> QED BY <1>1, <1>2, <1>3, <1>4 DEF CacheOK

LEMMA SentLength ==
  ASSUME NEW u \in SubPartitions, NEW x \in Waiting, NEW v, Requested(u, v, x)
  PROVE  Len(u.miss) \in Nat /\ Len(v.miss) \in Nat /\ Len(v.miss) <= Len(u.miss) + 1
<1>1. u.miss \in Seq(Fetches) /\ x \in Fetches
  BY DEF SubPartitions, Waiting
<1>2. Len(u.miss) \in Nat /\ Len(Append(u.miss, x)) = Len(u.miss) + 1
  BY <1>1, AppendOf
<1> QED BY <1>2 DEF Requested

LEMMA TwoMore ==
  ASSUME NEW k \in Nat, NEW m \in Nat, NEW n \in Nat, m <= n + 1, n + 2 <= k
  PROVE  m + 1 <= k
OBVIOUS

\* u is s but for its miss queue.
Alike(s, u) ==
  /\ u \in SubPartitions /\ CacheOK(u) /\ u.fetching = s.fetching
  /\ u.icnt = s.icnt /\ u.toDram = s.toDram /\ u.fromDram = s.fromDram
  /\ u.reply = s.reply /\ u.tracked = s.tracked

\* The cache can take request x.
CanTake(s, x) == MshrAvail(s, x.block) /\ Probe(s, x.block) # "reservation fail"

\* The requests of t are those of s, the first in its place in the cache.
Entered(s, u, v, t) ==
  /\ t.icnt = Tail(s.icnt) /\ t.mshr = v.mshr /\ t.miss = u.miss
  /\ t.toDram = s.toDram /\ t.fromDram = s.fromDram /\ t.reply = s.reply

LEMMA SomeEntered ==
  ASSUME NEW s, NEW u, NEW v
  PROVE  \E t : Entered(s, u, v, t)
<1> DEFINE z == [icnt |-> Tail(s.icnt), mshr |-> v.mshr, miss |-> u.miss,
                 toDram |-> s.toDram, fromDram |-> s.fromDram,
                 reply |-> s.reply]
<1>1. Entered(s, u, v, z)
  BY DEF Entered
<1> HIDE DEF z
<1> QED BY <1>1

\* What an accepted miss leaves is sound, wherever its request went first.
LEMMA AcceptedSound ==
  ASSUME Config, NEW s, NEW d, NEW e, NEW a \in 0 .. MaxRequests, Sound(s, d, e, a),
         s.icnt # <<>>, NEW u, Alike(s, u), NEW x \in Waiting, CanTake(u, x),
         NEW v, Requested(u, v, x), NEW r, Accepts(v, r),
         Len(u.miss) + 2 <= MissSize,
         NEW t, Entered(s, u, v, t), Placed(Containers(t, d, e), s.fetching, a)
  PROVE  Sound(r, d, e, a)
<1>1. /\ u \in SubPartitions /\ CacheOK(u) /\ u.fetching = s.fetching
       /\ u.icnt = s.icnt /\ u.toDram = s.toDram /\ u.fromDram = s.fromDram
       /\ u.reply = s.reply /\ u.tracked = s.tracked
  BY DEF Alike
<1>2. MshrAvail(u, x.block) /\ Probe(u, x.block) # "reservation fail"
  BY DEF CanTake
<1>3. /\ t.icnt = Tail(s.icnt) /\ t.mshr = v.mshr /\ t.miss = u.miss
       /\ t.toDram = s.toDram /\ t.fromDram = s.fromDram /\ t.reply = s.reply
  BY DEF Entered
<1>4. s \in SubPartitions /\ Sizes(s)
  BY DEF Sound
<1>5. v \in SubPartitions /\ v.fetching \in SUBSET Waiting
  BY DEF Requested, SubPartitions
<1>6. /\ v.icnt = s.icnt /\ v.toDram = s.toDram /\ v.fromDram = s.fromDram
      /\ v.reply = s.reply /\ v.tracked = s.tracked
  BY <1>1 DEF Requested
<1>7. r \in SubPartitions /\ r.fetching = v.fetching /\ r.tracked = v.tracked
  BY DEF Accepts
<1>8. CacheOK(v)
  BY <1>1, <1>2, RequestCache
<1>9. CacheOK(r)
  BY <1>8, AcceptCache
<1>10. Sizes(r)
  <2>1. Len(u.miss) \in Nat /\ Len(v.miss) \in Nat /\ Len(v.miss) <= Len(u.miss) + 1
    BY <1>1, SentLength
  <2>2. Len(v.miss) + 1 <= MissSize
    <3>1. MissSize \in Nat
      BY L2Assumption
    <3> QED BY <2>1, <3>1, TwoMore
  <2> PICK n \in Nat : n = Len(v.miss)
    BY <2>1
  <2>3. n + 1 <= MissSize
    BY <2>2
  <2> QED BY <1>4, <1>5, <1>6, <2>3, AcceptSizes
<1>11. Placed(Containers(r, d, e), v.fetching, a)
  <2>1. PICK y : /\ y.icnt = t.icnt /\ y.mshr = t.mshr /\ y.miss = v.miss
                 /\ y.toDram = t.toDram /\ y.fromDram = t.fromDram
                 /\ y.reply = t.reply
    <3> DEFINE z == [icnt |-> t.icnt, mshr |-> t.mshr, miss |-> v.miss,
                     toDram |-> t.toDram, fromDram |-> t.fromDram,
                     reply |-> t.reply]
    <3>1. /\ z.icnt = t.icnt /\ z.mshr = t.mshr /\ z.miss = v.miss
          /\ z.toDram = t.toDram /\ z.fromDram = t.fromDram
          /\ z.reply = t.reply
      OBVIOUS
    <3> HIDE DEF z
    <3> QED BY <3>1
  <2>2. Placed(Containers(t, d, e), u.fetching, a) /\ Matches(u)
    BY <1>1 DEF CacheOK
  <2>3. Placed(Containers(y, d, e), v.fetching, a)
    BY <1>1, <1>3, <2>1, <2>2, RequestPlaced
  <2> PICK f \in SUBSET Waiting : f = v.fetching
    BY <1>5
  <2>4. Placed(Containers(y, d, e), f, a)
    BY <2>3
  <2>5. /\ y.icnt = r.icnt /\ y.miss = v.miss /\ y.mshr = v.mshr
        /\ y.toDram = v.toDram /\ y.fromDram = v.fromDram /\ y.reply = v.reply
    BY <1>6, <1>3, <2>1 DEF Accepts
  <2>6. Placed(Containers(r, d, e), f, a)
    BY <1>5, <2>4, <2>5, AcceptPlaced
  <2> QED BY <2>6
<1>12. Tracks(r, e, a)
  BY <1>6, <1>7 DEF Sound, Tracks
<1>13. Placed(Containers(r, d, e), r.fetching, a)
  BY <1>7, <1>11
<1> QED BY <1>7, <1>9, <1>10, <1>12, <1>13 DEF Sound, CacheOK

LEMMA SameTable ==
  ASSUME NEW s \in SubPartitions, NEW x \in Waiting, NEW v, Requested(s, v, x)
  PROVE  Gains(Merged(s.mshr), Merged(v.mshr), x)
<1> PICK f \in Tables : f = s.mshr
  BY DEF SubPartitions
<1> PICK b \in Blocks : b = x.block
  BY DEF Waiting, Fetches, AllFetches
<1> PICK g : g = v.mshr
  OBVIOUS
<1>1. Adds(f, g, b, x)
  BY DEF Requested
<1>2. Gains(Merged(f), Merged(g), x)
  BY <1>1, AddsGains
<1> QED BY <1>2

\* A read goes from the interconnect to its MSHR entry.
LEMMA ReadPlaced ==
  ASSUME NEW s \in SubPartitions, NEW d, NEW e, NEW a \in 0 .. MaxRequests,
         Placed(Containers(s, d, e), s.fetching, a), s.icnt # <<>>,
         NEW m \in Waiting, m = Head(s.icnt), m.kind = "read",
         NEW v, Requested(s, v, m), NEW t, Entered(s, s, v, t)
  PROVE  Placed(Containers(t, d, e), s.fetching, a)
<1>1. /\ t.icnt = Tail(s.icnt) /\ t.mshr = v.mshr /\ t.miss = s.miss
      /\ t.toDram = s.toDram /\ t.fromDram = s.fromDram /\ t.reply = s.reply
  BY DEF Entered
<1>2. s.fetching \in SUBSET Waiting /\ s.icnt \in Seq(Arriving)
  BY DEF SubPartitions
<1> PICK f \in SUBSET Waiting : f = s.fetching
  BY <1>2
<1>3. Loses(s.icnt, Tail(s.icnt), m)
  BY <1>2, TailLoses
<1>4. Gains(Merged(s.mshr), Merged(v.mshr), m)
  BY SameTable
<1>5. 1 \in 1 .. 8 /\ 2 \in 1 .. 8 /\ 1 # 2
  OBVIOUS
<1>6. Others(Containers(s, d, e), Containers(t, d, e), 1, 2)
  BY <1>1, <1>5, OthersAre
<1> PICK c, k : c = Containers(s, d, e) /\ k = Containers(t, d, e)
  OBVIOUS
<1>7. c[1] = s.icnt /\ c[2] = Merged(s.mshr)
  BY ContainersAre
<1>8. k[1] = t.icnt /\ k[2] = Merged(t.mshr)
  BY ContainersAre
<1>9. m \in Fetches
  BY DEF Waiting
<1>10. Passes(m, 1, m, 2)
  BY <1>9, PassesAre
<1>11. Loses(c[1], k[1], m)
  BY <1>1, <1>3, <1>7, <1>8
<1>12. Gains(c[2], k[2], m)
  BY <1>1, <1>4, <1>7, <1>8
<1>13. Moves(c, k, 1, m, 2, m)
  BY <1>5, <1>6, <1>10, <1>11, <1>12 DEF Moves
<1>14. Placed(c, f, a)
  OBVIOUS
<1>15. Placed(k, f, a)
  BY <1>5, <1>13, <1>14, PlacedMoves
<1> QED BY <1>15

LEMMA ReadMissSound ==
  ASSUME Config, NEW s, NEW d, NEW e, NEW a \in 0 .. MaxRequests, Sound(s, d, e, a),
         s.icnt # <<>>, NEW m \in Arriving, m = Head(s.icnt), m.kind = "read",
         Probe(s, m.block) # "reservation fail"
  PROVE  Sound(ReadMiss(s, m), d, e, a) /\ ReadMiss(s, m).tracked = s.tracked
<1>1. CASE ~(MissRoom(s, 2) /\ MshrAvail(s, m.block))
  <2>1. ReadMiss(s, m) = s
    BY <1>1 DEF ReadMiss
  <2> QED BY <2>1
<1>2. CASE MissRoom(s, 2) /\ MshrAvail(s, m.block)
  <2>1. s \in SubPartitions /\ CacheOK(s) /\ m \in Waiting
    BY DEF Sound, CacheOK, Arriving, Waiting
  <2> PICK v : v = SendRead(s, m)
    OBVIOUS
  <2>2. Requested(s, v, m)
    BY <2>1, RequestFields DEF CacheOK
  <2>3. v \in SubPartitions /\ v.icnt # <<>> /\ v.icnt = s.icnt
    BY <2>2 DEF Requested
  <2> PICK r : r = Accepted(WriteBack(v, s, m.block))
    OBVIOUS
  <2>4. Accepts(v, r)
    BY <2>1, <2>3, AcceptFields DEF CacheOK
  <2>5. ReadMiss(s, m) = r
    BY <1>2 DEF ReadMiss
  <2>6. Len(s.miss) + 2 <= MissSize
    BY <1>2, <2>1, MissSize1
  <2>7. PICK t : Entered(s, s, v, t)
    BY SomeEntered
  <2>8. Placed(Containers(t, d, e), s.fetching, a)
    BY <2>1, <2>2, <2>7, ReadPlaced DEF Sound
  <2>9. Alike(s, s) /\ CanTake(s, m)
    BY <1>2, <2>1 DEF Alike, CanTake
  <2>10. Sound(r, d, e, a)
    BY <2>1, <2>2, <2>4, <2>6, <2>7, <2>8, <2>9, AcceptedSound
  <2>11. r.tracked = s.tracked
    BY <2>2, <2>4 DEF Requested, Accepts
  <2> QED BY <2>5, <2>10, <2>11
<1> QED BY <1>1, <1>2

\* u is s with a write sent.
Sends(s, u, m) ==
  /\ u \in SubPartitions /\ CacheOK(u)
  /\ u.miss = Append(s.miss, m)
  /\ u.lines = s.lines /\ u.mshr = s.mshr /\ u.fetching = s.fetching
  /\ u.icnt = s.icnt /\ u.ready = s.ready /\ u.toDram = s.toDram
  /\ u.fromDram = s.fromDram /\ u.reply = s.reply
  /\ u.tracked = s.tracked

LEMMA SendFields ==
  ASSUME NEW s \in SubPartitions, CacheOK(s), NEW m \in Fetches
  PROVE  Sends(s, Send(s, m), m)
<1> PICK u : u = Send(s, m)
  OBVIOUS
<1>1. s.miss \in Seq(Fetches)
  BY DEF SubPartitions
<1>2. Append(s.miss, m) \in Seq(Fetches)
  BY <1>1, LongerList
<1>3. /\ u \in SubPartitions
      /\ u.miss = Append(s.miss, m)
      /\ u.lines = s.lines /\ u.mshr = s.mshr /\ u.fetching = s.fetching
      /\ u.icnt = s.icnt /\ u.ready = s.ready /\ u.toDram = s.toDram
      /\ u.fromDram = s.fromDram /\ u.reply = s.reply
      /\ u.tracked = s.tracked
  BY <1>2 DEF Send, SubPartitions
<1>4. SetOfLines(u)
  BY <1>3 DEF CacheOK, SetOfLines
<1>5. Reserves(u)
  BY <1>3 DEF CacheOK, Reserves, IsReserved
<1>6. Matches(u)
  BY <1>3 DEF CacheOK, Matches
<1>7. Limits(u)
  BY <1>3 DEF CacheOK, Limits
<1>8. Sends(s, u, m)
  BY <1>3, <1>4, <1>5, <1>6, <1>7 DEF CacheOK, Sends
<1> QED BY <1>8

\* r is u without the first request of the interconnect.
Drained(u, r) ==
  /\ r \in SubPartitions /\ r.icnt = Tail(u.icnt)
  /\ r.miss = u.miss
  /\ r.lines = u.lines /\ r.mshr = u.mshr /\ r.fetching = u.fetching
  /\ r.ready = u.ready /\ r.toDram = u.toDram
  /\ r.fromDram = u.fromDram /\ r.reply = u.reply
  /\ r.tracked = u.tracked

LEMMA AcceptedFields ==
  ASSUME NEW u \in SubPartitions, u.icnt # <<>>
  PROVE  Drained(u, Accepted(u))
<1>1. u.icnt \in Seq(Arriving)
  BY DEF SubPartitions
<1>2. Tail(u.icnt) \in Seq(Arriving)
  BY <1>1, TailOf
<1> QED BY <1>2 DEF Accepted, SubPartitions, Drained

\* wr_miss_no_wa(), and the first step of wr_miss_wa().
LEMMA WriteSentSound ==
  ASSUME Config, NEW s, NEW d, NEW e, NEW a \in 0 .. MaxRequests, Sound(s, d, e, a),
         s.icnt # <<>>, NEW m \in Arriving, m = Head(s.icnt), m.kind # "read",
         Len(s.miss) + 1 <= MissSize,
         NEW u, Sends(s, u, m), NEW r, Drained(u, r)
  PROVE  Sound(r, d, e, a) /\ r.tracked = s.tracked
<1>1. CacheOK(u)
  BY DEF Sends
<1>2. Passed(s, r, m)
  BY DEF Passed, SameEntries, Sends, Drained
<1>3. SetOfLines(r)
  BY <1>1 DEF CacheOK, SetOfLines, Drained
<1>4. Reserves(r)
  BY <1>1 DEF CacheOK, Reserves, IsReserved, Drained
<1>5. Sound(r, d, e, a)
  BY <1>2, <1>3, <1>4, PassedSound
<1>6. r.tracked = s.tracked
  BY DEF Sends, Drained
<1> QED BY <1>5, <1>6

\* The cache's own fetch goes to the entry of its block.
LEMMA AllocPlaced ==
  ASSUME NEW y, NEW u \in SubPartitions, NEW d, NEW e, NEW a \in 0 .. MaxRequests,
         NEW f \in SUBSET Waiting, Placed(Containers(y, d, e), f, a),
         NEW x \in Waiting, x.kind = "alloc", NEW v, Requested(u, v, x),
         y.mshr = u.mshr,
         NEW t, t.icnt = y.icnt, t.mshr = v.mshr, t.miss = y.miss,
         t.toDram = y.toDram, t.fromDram = y.fromDram, t.reply = y.reply
  PROVE  Placed(Containers(t, d, e), f, a)
<1>1. Gains(Merged(u.mshr), Merged(v.mshr), x)
  BY SameTable
<1>2. 2 \in 1 .. 8
  OBVIOUS
<1>3. Others(Containers(y, d, e), Containers(t, d, e), 2, 2)
  BY <1>2, OthersAre
<1> PICK c, k : c = Containers(y, d, e) /\ k = Containers(t, d, e)
  OBVIOUS
<1>4. c[2] = Merged(y.mshr)
  BY ContainersAre
<1>5. k[2] = Merged(t.mshr)
  BY ContainersAre
<1>6. x \in Fetches
  BY DEF Waiting
<1>7. Ignored(x, 2)
  BY <1>6, PassesAre
<1>8. Gains(c[2], k[2], x)
  BY <1>1, <1>4, <1>5
<1>9. Placed(c, f, a) /\ Others(c, k, 2, 2)
  BY <1>3
<1>10. Placed(k, f, a)
  BY <1>2, <1>7, <1>8, <1>9, PlacedGains
<1> QED BY <1>10

\* What a write-miss with allocation sends first does not change what the cache
\* answers.
SameLookup(s, u, b) ==
  Probe(u, b) = Probe(s, b) /\ MshrAvail(u, b) = MshrAvail(s, b)

LEMMA SendProbe ==
  ASSUME NEW s, NEW u, NEW m, Sends(s, u, m), NEW b
  PROVE  SameLookup(s, u, b)
<1>1. u.lines = s.lines /\ u.mshr = s.mshr
  BY DEF Sends
<1>2. Line(u, b) = Line(s, b) /\ Replaceable(u) = Replaceable(s)
  BY <1>1 DEF Line, Replaceable
<1>3. Probe(u, b) = Probe(s, b)
  BY <1>1, <1>2 DEF Probe
<1>4. Entry(u, b) = Entry(s, b)
  BY <1>1 DEF Entry
<1>5. MshrAvail(u, b) = MshrAvail(s, b)
  BY <1>1, <1>4 DEF MshrAvail
<1> QED BY <1>3, <1>5 DEF SameLookup

LEMMA ThreeMore ==
  ASSUME NEW k, NEW m \in Nat, NEW n, n = m + 1, m + 3 <= k, k \in Nat
  PROVE  n + 2 <= k /\ m + 1 <= k
OBVIOUS

LEMMA SendRoom ==
  ASSUME NEW s \in SubPartitions, NEW m \in Fetches, MissRoom(s, 3),
         NEW u, Sends(s, u, m)
  PROVE  Len(u.miss) + 2 <= MissSize /\ Len(s.miss) + 1 <= MissSize
<1>1. s.miss \in Seq(Fetches) /\ MissSize \in Nat
  BY L2Assumption DEF SubPartitions
<1>2. Len(s.miss) \in Nat /\ Len(s.miss) + 3 <= MissSize
  BY MissSize1
<1>3. Len(Append(s.miss, m)) = Len(s.miss) + 1
  BY <1>1, AppendOf
<1>4. Len(u.miss) = Len(s.miss) + 1
  BY <1>3 DEF Sends
<1> QED BY <1>1, <1>2, <1>4, ThreeMore

LEMMA AllocIs ==
  ASSUME NEW b \in Blocks
  PROVE  /\ MemFetch("alloc", b, 0) \in Waiting
         /\ MemFetch("alloc", b, 0).kind = "alloc"
         /\ MemFetch("alloc", b, 0).block = b
<1>1. 0 \in 0 .. MaxRequests
  BY L2Assumption
<1> QED BY <1>1 DEF MemFetch, Waiting, Fetches, AllFetches

LEMMA WriteAllocSound ==
  ASSUME Config, NEW s, NEW d, NEW e, NEW a \in 0 .. MaxRequests, Sound(s, d, e, a),
         s.icnt # <<>>, NEW m \in Arriving, m = Head(s.icnt), m.kind # "read",
         MissRoom(s, 3), NEW x \in Waiting, x.kind = "alloc", CanTake(s, x),
         NEW u, Sends(s, u, m), NEW y, Drained(u, y),
         NEW v, Requested(u, v, x), NEW r, Accepts(v, r)
  PROVE  Sound(r, d, e, a) /\ r.tracked = s.tracked
<1>1. s \in SubPartitions /\ m \in Fetches
  BY DEF Sound, Arriving
<1>2. /\ u \in SubPartitions /\ CacheOK(u)
      /\ u.fetching = s.fetching
      /\ u.icnt = s.icnt /\ u.toDram = s.toDram
      /\ u.fromDram = s.fromDram /\ u.reply = s.reply
      /\ u.tracked = s.tracked
  BY DEF Sends
<1>3. SameLookup(s, u, x.block)
  BY SendProbe
<1>4. CanTake(u, x) /\ Alike(s, u)
  BY <1>2, <1>3 DEF SameLookup, CanTake, Alike
<1>5. Len(u.miss) + 2 <= MissSize /\ Len(s.miss) + 1 <= MissSize
  BY <1>1, SendRoom
<1>6. Sound(y, d, e, a)
  BY <1>5, WriteSentSound
<1>7. /\ y.icnt = Tail(s.icnt) /\ y.miss = u.miss
       /\ y.mshr = u.mshr /\ y.fetching = s.fetching
       /\ y.toDram = s.toDram /\ y.fromDram = s.fromDram /\ y.reply = s.reply
  BY <1>2 DEF Drained
<1>8. PICK t : Entered(s, u, v, t)
  BY SomeEntered
<1>9. s.fetching \in SUBSET Waiting
  BY <1>1 DEF SubPartitions
<1>10. Placed(Containers(y, d, e), s.fetching, a)
  BY <1>6, <1>7 DEF Sound
<1>11. Placed(Containers(t, d, e), s.fetching, a)
  <2>1. /\ t.icnt = y.icnt /\ t.miss = y.miss /\ t.toDram = y.toDram
        /\ t.fromDram = y.fromDram /\ t.reply = y.reply /\ t.mshr = v.mshr
        /\ y.mshr = u.mshr
    BY <1>7, <1>8 DEF Entered
  <2> PICK f \in SUBSET Waiting : f = s.fetching
    BY <1>9
  <2>2. Placed(Containers(y, d, e), f, a)
    BY <1>10
  <2>3. Placed(Containers(t, d, e), f, a)
    BY <1>2, <2>1, <2>2, AllocPlaced
  <2> QED BY <2>3
<1>12. Sound(r, d, e, a)
  BY <1>4, <1>5, <1>8, <1>11, AcceptedSound
<1>13. r.tracked = s.tracked
  BY <1>2 DEF Requested, Accepts
<1> QED BY <1>12, <1>13

\* r is sound, and tracks the requests s tracks.
Goes(s, r, d, e, a) == Sound(r, d, e, a) /\ r.tracked = s.tracked

LEMMA AllocateSound ==
  ASSUME Config, NEW s, NEW d, NEW e, NEW a \in 0 .. MaxRequests, Sound(s, d, e, a),
         s.icnt # <<>>, NEW m \in Arriving, m = Head(s.icnt), m.kind # "read",
         MissRoom(s, 3), NEW x \in Waiting, x.kind = "alloc", CanTake(s, x)
  PROVE  Goes(s, Accepted(WriteBack(SendRead(Send(s, m), x), s, x.block)), d, e, a)
<1>1. s \in SubPartitions /\ CacheOK(s) /\ m \in Fetches
  BY DEF Sound, CacheOK, Arriving
<1> PICK u : u = Send(s, m)
  OBVIOUS
<1>2. Sends(s, u, m)
  BY <1>1, SendFields
<1>3. u \in SubPartitions /\ SetOfLines(u) /\ u.icnt # <<>>
  BY <1>2 DEF Sends, CacheOK
<1> PICK y : y = Accepted(u)
  OBVIOUS
<1>4. Drained(u, y)
  BY <1>3, AcceptedFields
<1>5. SameLookup(s, u, x.block)
  BY <1>2, SendProbe
<1> PICK v : v = SendRead(u, x)
  OBVIOUS
<1>6. Requested(u, v, x)
  BY <1>3, <1>5, RequestFields DEF SameLookup, CanTake
<1>7. v \in SubPartitions /\ v.icnt # <<>>
  BY <1>3, <1>6 DEF Requested
<1> PICK r : r = Accepted(WriteBack(v, s, x.block))
  OBVIOUS
<1>8. Accepts(v, r)
  BY <1>1, <1>7, AcceptFields DEF CacheOK
<1>9. Sound(r, d, e, a) /\ r.tracked = s.tracked
  BY <1>2, <1>4, <1>6, <1>8, WriteAllocSound
<1> QED BY <1>9 DEF Goes

\* wr_miss_no_wa()
LEMMA NoAllocateSound ==
  ASSUME Config, NEW s, NEW d, NEW e, NEW a \in 0 .. MaxRequests, Sound(s, d, e, a),
         s.icnt # <<>>, NEW m \in Arriving, m = Head(s.icnt), m.kind # "read",
         Len(s.miss) + 1 <= MissSize
  PROVE  /\ Sound(Accepted(Send(s, m)), d, e, a)
         /\ Accepted(Send(s, m)).tracked = s.tracked
<1>1. s \in SubPartitions /\ CacheOK(s) /\ m \in Fetches
  BY DEF Sound, CacheOK, Arriving
<1> PICK u : u = Send(s, m)
  OBVIOUS
<1>2. Sends(s, u, m)
  BY <1>1, SendFields
<1>3. u \in SubPartitions /\ u.icnt # <<>>
  BY <1>2 DEF Sends
<1> PICK r : r = Accepted(u)
  OBVIOUS
<1>4. Drained(u, r)
  BY <1>3, AcceptedFields
<1>5. Sound(r, d, e, a) /\ r.tracked = s.tracked
  BY <1>2, <1>4, WriteSentSound
<1> QED BY <1>5

LEMMA WriteMissSound ==
  ASSUME Config, NEW s, NEW d, NEW e, NEW a \in 0 .. MaxRequests, Sound(s, d, e, a),
         s.icnt # <<>>, NEW m \in Arriving, m = Head(s.icnt), m.kind # "read",
         Probe(s, m.block) # "reservation fail"
  PROVE  Sound(WriteMiss(s, m), d, e, a) /\ WriteMiss(s, m).tracked = s.tracked
<1>1. s \in SubPartitions /\ m.block \in Blocks
  BY DEF Sound, Arriving, Fetches, AllFetches
<1>2. CASE writeAllocate /\ MissRoom(s, 3) /\ MshrAvail(s, m.block)
  <2> PICK x : x = MemFetch("alloc", m.block, 0)
    OBVIOUS
  <2>1. x \in Waiting /\ x.kind = "alloc" /\ x.block = m.block
    BY <1>1, AllocIs
  <2>2. WriteMiss(s, m) = Accepted(WriteBack(SendRead(Send(s, m), x), s, x.block))
    BY <1>2, <2>1 DEF WriteMiss
  <2>3. MissRoom(s, 3) /\ CanTake(s, x)
    BY <1>2, <2>1 DEF CanTake
  <2>4. Goes(s, Accepted(WriteBack(SendRead(Send(s, m), x), s, x.block)), d, e, a)
    BY <2>1, <2>3, AllocateSound
  <2> QED BY <2>2, <2>4 DEF Goes
<1>3. CASE writeAllocate /\ ~(MissRoom(s, 3) /\ MshrAvail(s, m.block))
  <2>1. WriteMiss(s, m) = s
    BY <1>3 DEF WriteMiss
  <2> QED BY <2>1
<1>4. CASE ~writeAllocate /\ MissRoom(s, 1)
  <2>1. Len(s.miss) + 1 <= MissSize
    BY <1>1, <1>4, MissSize1
  <2>2. WriteMiss(s, m) = Accepted(Send(s, m))
    BY <1>4 DEF WriteMiss
  <2> QED BY <2>1, <2>2, NoAllocateSound
<1>5. CASE ~writeAllocate /\ ~MissRoom(s, 1)
  <2>1. WriteMiss(s, m) = s
    BY <1>5 DEF WriteMiss
  <2> QED BY <2>1
<1> QED BY <1>2, <1>3, <1>4, <1>5

\* r is s with lines w.
Relined(s, r, w) ==
  /\ r \in SubPartitions /\ r.lines = w
  /\ r.mshr = s.mshr /\ r.fetching = s.fetching /\ r.icnt = s.icnt
  /\ r.miss = s.miss /\ r.ready = s.ready /\ r.toDram = s.toDram
  /\ r.fromDram = s.fromDram /\ r.reply = s.reply /\ r.tracked = s.tracked

LEMMA RelinedIs ==
  ASSUME NEW s \in SubPartitions, NEW w \in Seq(CacheLines)
  PROVE  Relined(s, [s EXCEPT !.lines = w], w)
BY DEF Relined, SubPartitions

LEMMA UseRelines ==
  ASSUME NEW s \in SubPartitions, SetOfLines(s), NEW b \in Blocks,
         NEW st \in Statuses, Probe(s, b) = "hit"
  PROVE  \E w : Relined(s, Use(s, b, st), w) /\ Keeps(s, w, b)
<1> PICK z, w : z = Use(s, b, st) /\ w = z.lines
  OBVIOUS
<1>1. Keeps(s, w, b)
  BY UseKeeps
<1>2. z = [s EXCEPT !.lines = w]
  BY UseIs
<1>3. w \in Seq(CacheLines)
  BY <1>1 DEF Keeps
<1>4. Relined(s, z, w)
  BY <1>2, <1>3, RelinedIs
<1> QED BY <1>1, <1>4

\* r is z with a reply to m, or with write-back m no longer tracked.
Replied(z, r, m) ==
  /\ r \in SubPartitions /\ r.lines = z.lines
  /\ r.mshr = z.mshr /\ r.fetching = z.fetching /\ r.icnt = z.icnt
  /\ r.miss = z.miss /\ r.ready = z.ready /\ r.toDram = z.toDram
  /\ r.fromDram = z.fromDram
  /\ IF m.kind = "wrbk"
       THEN r.reply = z.reply /\ r.tracked = z.tracked \ {m.id}
       ELSE r.reply = Append(z.reply, m) /\ r.tracked = z.tracked

LEMMA ReplyIs ==
  ASSUME NEW z \in SubPartitions, NEW m \in Arriving
  PROVE  Replied(z, Reply(z, m), m)
<1>1. CASE m.kind = "wrbk"
  BY <1>1 DEF Reply, Replied, SubPartitions
<1>2. CASE m.kind # "wrbk"
  <2>1. m \in Answers /\ z.reply \in Seq(Answers)
    BY <1>2 DEF Arriving, Answers, SubPartitions
  <2>2. Append(z.reply, m) \in Seq(Answers)
    BY <2>1, LongerList
  <2> QED BY <1>2, <2>2 DEF Reply, Replied, SubPartitions
<1> QED BY <1>1, <1>2

LEMMA HitSound ==
  ASSUME NEW s \in SubPartitions, CacheOK(s), NEW b, Probe(s, b) = "hit",
         NEW w, Keeps(s, w, b), NEW r, r.lines = w, r.fetching = s.fetching
  PROVE  SetOfLines(r) /\ Reserves(r)
<1>1. Keeps(s, r.lines, b)
  OBVIOUS
<1> QED BY <1>1, HitKeeps DEF CacheOK

\* A hit that is answered.
LEMMA HitReplied ==
  ASSUME NEW s \in SubPartitions, CacheOK(s), NEW m \in Arriving,
         Probe(s, m.block) = "hit", s.icnt # <<>>,
         NEW z, NEW w, Relined(s, z, w), Keeps(s, w, m.block),
         NEW y, Replied(z, y, m), NEW r, Drained(y, r)
  PROVE  /\ SetOfLines(r) /\ Reserves(r)
         /\ m.kind # "wrbk" => Answered(s, r, m)
         /\ m.kind = "wrbk" => Absorbed(s, r, m)
<1>1. r.lines = w /\ r.fetching = s.fetching
  BY DEF Relined, Replied, Drained
<1>2. SetOfLines(r) /\ Reserves(r)
  BY <1>1, HitSound
<1>3. SameEntries(s, r)
  BY DEF Relined, Replied, Drained, SameEntries
<1>4. r.icnt = Tail(s.icnt) /\ r.miss = s.miss
  BY DEF Relined, Replied, Drained
<1>5. ASSUME m.kind # "wrbk" PROVE Answered(s, r, m)
  <2>1. r.reply = Append(s.reply, m) /\ r.tracked = s.tracked
    BY <1>5 DEF Relined, Replied, Drained
  <2> QED BY <1>3, <1>4, <2>1 DEF Answered
<1>6. ASSUME m.kind = "wrbk" PROVE Absorbed(s, r, m)
  <2>1. r.reply = s.reply /\ r.tracked = s.tracked \ {m.id}
    BY <1>6 DEF Relined, Replied, Drained
  <2> QED BY <1>3, <1>4, <2>1 DEF Absorbed
<1> QED BY <1>2, <1>5, <1>6

\* A write hit that is sent.
LEMMA HitPassed ==
  ASSUME NEW s \in SubPartitions, CacheOK(s), NEW m \in Arriving,
         Probe(s, m.block) = "hit", s.icnt # <<>>,
         NEW z, NEW w, Relined(s, z, w), Keeps(s, w, m.block)
  PROVE  LET r == Accepted(Send(z, m))
         IN  SetOfLines(r) /\ Reserves(r) /\ Passed(s, r, m)
<1> PICK y : y = Send(z, m)
  OBVIOUS
<1>1. z \in SubPartitions /\ m \in Fetches
  BY DEF Relined, Arriving
<1>2. Append(z.miss, m) \in Seq(Fetches)
  BY <1>1, LongerList DEF SubPartitions
<1>3. /\ y \in SubPartitions /\ y.miss = Append(z.miss, m)
      /\ y.lines = z.lines /\ y.mshr = z.mshr /\ y.fetching = z.fetching
      /\ y.icnt = z.icnt /\ y.ready = z.ready /\ y.toDram = z.toDram
      /\ y.fromDram = z.fromDram /\ y.reply = z.reply /\ y.tracked = z.tracked
  BY <1>1, <1>2 DEF Send, SubPartitions
<1>4. y.icnt # <<>>
  BY <1>3 DEF Relined
<1> PICK r : r = Accepted(y)
  OBVIOUS
<1>5. Drained(y, r)
  BY <1>3, <1>4, AcceptedFields
<1>6. r.lines = w /\ r.fetching = s.fetching
  BY <1>3, <1>5 DEF Relined, Drained
<1>7. SetOfLines(r) /\ Reserves(r)
  BY <1>6, HitSound
<1>8. SameEntries(s, r)
  BY <1>3, <1>5 DEF Relined, Drained, SameEntries
<1>9. Passed(s, r, m)
  BY <1>3, <1>5, <1>8 DEF Relined, Drained, Passed
<1> QED BY <1>7, <1>9

-----------------------------------------------------------------------------
(* The access, and the requests that end in it.                            *)

LEMMA NoneEnded ==
  ASSUME NEW e \in Seq(1 .. MaxRequests)
  PROVE  e \o SetToSeq({}) = e
<1>1. Cardinality({}) = 0
  BY FS_EmptySet
<1>2. \A f \in [1 .. 0 -> {}] : f = <<>>
  OBVIOUS
<1>3. <<>> \in [1 .. 0 -> {}] /\ IsInjective(<<>>)
  BY DEF IsInjective
<1>4. SetToSeq({}) \in [1 .. 0 -> {}]
  BY <1>1, <1>3 DEF SetToSeq
<1>5. SetToSeq({}) = <<>>
  BY <1>2, <1>4
<1> QED BY <1>5

LEMMA OneEnded ==
  ASSUME NEW e \in Seq(1 .. MaxRequests), NEW n \in 1 .. MaxRequests
  PROVE  e \o SetToSeq({n}) = Append(e, n)
<1>1. Cardinality({n}) = 1
  BY FS_Singleton
<1>2. <<n>> \in [1 .. 1 -> {n}]
  OBVIOUS
<1>3. IsInjective(<<n>>)
  BY DEF IsInjective
<1>4. \A f \in [1 .. 1 -> {n}] : f = <<n>>
  OBVIOUS
<1>5. SetToSeq({n}) \in [1 .. 1 -> {n}]
  <2>1. SetToSeq({n}) = CHOOSE f \in [1 .. 1 -> {n}] : IsInjective(f)
    BY <1>1 DEF SetToSeq
  <2>2. \E f \in [1 .. 1 -> {n}] : IsInjective(f)
    BY <1>2, <1>3
  <2> QED BY <2>1, <2>2
<1>6. SetToSeq({n}) = <<n>>
  BY <1>4, <1>5
<1>7. e \o <<n>> = Append(e, n)
  OBVIOUS
<1> QED BY <1>6, <1>7

\* r follows s, and ee is e with what r no longer tracks.
Follows(s, e, r, ee, d, a) ==
  /\ ee = e \o SetToSeq(s.tracked \ r.tracked)
  /\ ee \in Seq(1 .. MaxRequests)
  /\ Sound(r, d, ee, a)

LEMMA GoesFollows ==
  ASSUME NEW s, NEW d, NEW e \in Seq(1 .. MaxRequests), NEW a, NEW r,
         Goes(s, r, d, e, a)
  PROVE  Follows(s, e, r, e \o SetToSeq(s.tracked \ r.tracked), d, a)
<1>1. s.tracked \ r.tracked = {}
  BY DEF Goes
<1> PICK ee : ee = e \o SetToSeq(s.tracked \ r.tracked)
  OBVIOUS
<1>2. ee = e
  BY <1>1, NoneEnded
<1>3. Sound(r, d, ee, a) /\ ee \in Seq(1 .. MaxRequests)
  BY <1>2 DEF Goes
<1> QED BY <1>3 DEF Follows

\* A request that waits in the queue of the interconnect is tracked.
LEMMA WaitingTracked ==
  ASSUME NEW s, NEW d, NEW e \in Seq(1 .. MaxRequests), NEW a \in 0 .. MaxRequests,
         Sound(s, d, e, a), s.icnt # <<>>, NEW m \in Arriving, m = Head(s.icnt)
  PROVE  m.id \in s.tracked /\ m.id \in 1 .. MaxRequests
<1>1. s \in SubPartitions
  BY DEF Sound
<1>2. s.icnt \in Seq(Arriving)
  BY <1>1 DEF SubPartitions
<1>3. m = s.icnt[1] /\ 1 \in DOMAIN s.icnt
  BY <1>2, TailOf
<1>4. m.id \in 1 .. MaxRequests
  <2>1. m.id \in 0 .. MaxRequests /\ m.id # 0
    BY DEF Arriving, Fetches, AllFetches
  <2> QED BY <2>1, L2Assumption
<1> PICK n \in 1 .. MaxRequests : n = m.id
  BY <1>4
<1> PICK c : c = Containers(s, d, e)
  OBVIOUS
<1>5. c[1] = s.icnt /\ c[8] = e
  BY ContainersAre
<1>6. RequestToken(n)[1] = Named(n) /\ RequestToken(n)[8] = {n}
  BY TokenParts
<1>7. m \in Named(n)
  BY DEF Named
<1>8. Has(c[1], RequestToken(n)[1])
  BY <1>3, <1>5, <1>6, <1>7 DEF Has
<1>9. 1 \in 1 .. 8 /\ 8 \in 1 .. 8 /\ 1 # 8
  OBVIOUS
<1>10. ~Never(c, RequestToken(n))
  BY <1>8, <1>9 DEF Never
<1>11. Placed(c, s.fetching, a)
  BY DEF Sound
<1>12. n \notin (a + 1) .. MaxRequests
  BY <1>10, <1>11 DEF Placed
<1>13. n \in 1 .. a
  BY <1>12, L2Assumption
<1>14. Once(c, RequestToken(n))
  BY <1>11, <1>13 DEF Placed
<1>15. ~Has(c[8], RequestToken(n)[8])
  BY <1>8, <1>9, <1>14 DEF Once
<1>16. \A i \in 1 .. Len(e) : e[i] # n
  <2>1. DOMAIN e = 1 .. Len(e)
    BY LengthOf
  <2> QED BY <1>5, <1>6, <1>15, <2>1 DEF Has
<1>17. s.tracked = 1 .. a \ {e[i] : i \in 1 .. Len(e)}
  BY DEF Sound, Tracks
<1> QED BY <1>4, <1>13, <1>16, <1>17

\* A hit that is answered, or a write-back that ends here.
LEMMA RepliedFollows ==
  ASSUME Config, NEW s, NEW d, NEW e \in Seq(1 .. MaxRequests),
         NEW a \in 0 .. MaxRequests, Sound(s, d, e, a), s.icnt # <<>>,
         NEW m \in Arriving, m = Head(s.icnt), Room(s.reply),
         Probe(s, m.block) = "hit",
         NEW z, NEW w, Relined(s, z, w), Keeps(s, w, m.block),
         NEW y, Replied(z, y, m), NEW r, Drained(y, r)
  PROVE  Follows(s, e, r, e \o SetToSeq(s.tracked \ r.tracked), d, a)
<1>1. s \in SubPartitions /\ CacheOK(s)
  BY DEF Sound, CacheOK
<1>2. /\ SetOfLines(r) /\ Reserves(r)
      /\ m.kind # "wrbk" => Answered(s, r, m)
      /\ m.kind = "wrbk" => Absorbed(s, r, m)
  BY <1>1, HitReplied
<1>3. CASE m.kind # "wrbk"
  <2>1. m \in Answers
    BY <1>3 DEF Arriving, Answers
  <2>2. Sound(r, d, e, a)
    BY <1>2, <1>3, <2>1, AnsweredSound
  <2>3. r.tracked = s.tracked
    BY <1>2, <1>3 DEF Answered
  <2>4. Goes(s, r, d, e, a)
    BY <2>2, <2>3 DEF Goes
  <2> QED BY <2>4, GoesFollows
<1>4. CASE m.kind = "wrbk"
  <2>1. m.id \in s.tracked /\ m.id \in 1 .. MaxRequests
    BY WaitingTracked
  <2> PICK n \in 1 .. MaxRequests : n = m.id
    BY <2>1
  <2>2. r.tracked = s.tracked \ {n}
    BY <1>2, <1>4 DEF Absorbed
  <2>3. s.tracked \ r.tracked = {n}
    BY <2>1, <2>2
  <2> PICK ee : ee = e \o SetToSeq(s.tracked \ r.tracked)
    OBVIOUS
  <2>4. ee = Append(e, n)
    BY <2>3, OneEnded
  <2>5. Gains(e, Append(e, n), n) /\ Append(e, n) \in Seq(1 .. MaxRequests)
    BY AppendGains, AppendOf
  <2>6. Tracks(s, e, a)
    BY DEF Sound
  <2>7. Tracks(r, Append(e, n), a)
    BY <2>2, <2>6, TracksOneLess
  <2>8. Gains(e, ee, m.id) /\ Tracks(r, ee, a) /\ ee \in Seq(1 .. MaxRequests)
    BY <2>4, <2>5, <2>7
  <2>9. Sound(r, d, ee, a)
    BY <1>2, <1>4, <2>8, AbsorbedSound
  <2> QED BY <2>8, <2>9 DEF Follows
<1> QED BY <1>3, <1>4

LEMMA HeadArrives ==
  ASSUME NEW s \in SubPartitions, s.icnt # <<>>
  PROVE  Head(s.icnt) \in Arriving /\ Head(s.icnt).block \in Blocks
<1>1. s.icnt \in Seq(Arriving)
  BY DEF SubPartitions
<1>2. Head(s.icnt) \in Arriving
  BY <1>1, TailOf
<1> QED BY <1>2 DEF Arriving, Fetches, AllFetches

LEMMA StatusKnown ==
  ASSUME NEW s \in SubPartitions, NEW b, Probe(s, b) = "hit"
  PROVE  StatusOf(s, b) \in Statuses
<1> PICK q \in Seq(CacheLines) : q = s.lines
  BY DEF SubPartitions
<1>1. \A i \in DOMAIN q : q[i] \in CacheLines
  OBVIOUS
<1>2. Line(s, b) # {}
  BY DEF Probe
<1>3. PICK i \in Line(s, b) : i = CHOOSE k \in Line(s, b) : TRUE
  BY <1>2
<1>4. s.lines[i] \in CacheLines
  BY <1>1, <1>3 DEF Line
<1> QED BY <1>3, <1>4 DEF StatusOf, CacheLines

\* The request of an access that does something.
Accesses(s, d, e, a, m) ==
  /\ Sound(s, d, e, a) /\ s.icnt # <<>> /\ m = Head(s.icnt) /\ m \in Arriving
  /\ Room(s.reply) /\ Probe(s, m.block) # "reservation fail"

LEMMA AnswerFollows ==
  ASSUME Config, NEW s, NEW d, NEW e \in Seq(1 .. MaxRequests),
         NEW a \in 0 .. MaxRequests, NEW m, Accesses(s, d, e, a, m),
         Probe(s, m.block) = "hit", NEW st \in Statuses
  PROVE  LET r == Accepted(Reply(Use(s, m.block, st), m))
         IN  Follows(s, e, r, e \o SetToSeq(s.tracked \ r.tracked), d, a)
<1>1. /\ Sound(s, d, e, a) /\ s.icnt # <<>> /\ m = Head(s.icnt) /\ m \in Arriving
      /\ Room(s.reply)
  BY DEF Accesses
<1>2. s \in SubPartitions /\ SetOfLines(s)
  BY <1>1 DEF Sound
<1>3. m.block \in Blocks
  BY <1>1, <1>2, HeadArrives
<1> PICK z, b : z = Use(s, b, st) /\ b = m.block
  OBVIOUS
<1>4. PICK w : Relined(s, z, w) /\ Keeps(s, w, m.block)
  BY <1>2, <1>3, UseRelines
<1>5. z \in SubPartitions /\ z.icnt = s.icnt
  BY <1>4 DEF Relined
<1> PICK y : y = Reply(z, m)
  OBVIOUS
<1>6. Replied(z, y, m)
  BY <1>1, <1>5, ReplyIs
<1>7. y \in SubPartitions /\ y.icnt # <<>>
  BY <1>1, <1>5, <1>6 DEF Replied
<1> PICK r : r = Accepted(y)
  OBVIOUS
<1>8. Drained(y, r)
  BY <1>7, AcceptedFields
<1>9. Follows(s, e, r, e \o SetToSeq(s.tracked \ r.tracked), d, a)
  BY <1>1, <1>4, <1>6, <1>8, RepliedFollows
<1> QED BY <1>9

\* A write hit that is sent, with the line used or evicted.
LEMMA HitSentGoes ==
  ASSUME Config, NEW s, NEW d, NEW e, NEW a \in 0 .. MaxRequests, NEW m,
         Accesses(s, d, e, a, m), Probe(s, m.block) = "hit", m.kind # "read",
         MissRoom(s, 1), NEW z, NEW w, Relined(s, z, w), Keeps(s, w, m.block)
  PROVE  Goes(s, Accepted(Send(z, m)), d, e, a)
<1>1. /\ Sound(s, d, e, a) /\ s.icnt # <<>> /\ m = Head(s.icnt) /\ m \in Arriving
      /\ Room(s.reply)
  BY DEF Accesses
<1>2. s \in SubPartitions /\ CacheOK(s)
  BY <1>1 DEF Sound, CacheOK
<1>3. Len(s.miss) + 1 <= MissSize
  BY <1>2, MissSize1
<1> PICK r : r = Accepted(Send(z, m))
  OBVIOUS
<1>4. SetOfLines(r) /\ Reserves(r) /\ Passed(s, r, m)
  BY <1>1, <1>2, HitPassed
<1>5. Sound(r, d, e, a)
  BY <1>1, <1>3, <1>4, PassedSound
<1>6. r.tracked = s.tracked
  BY <1>4 DEF Passed
<1> QED BY <1>5, <1>6 DEF Goes

LEMMA SameGoes ==
  ASSUME NEW s, NEW d, NEW e, NEW a, Sound(s, d, e, a)
  PROVE  Goes(s, s, d, e, a)
BY DEF Goes

LEMMA WriteHitFollows ==
  ASSUME Config, NEW s, NEW d, NEW e \in Seq(1 .. MaxRequests),
         NEW a \in 0 .. MaxRequests, NEW m, Accesses(s, d, e, a, m),
         Probe(s, m.block) = "hit", m.kind # "read"
  PROVE  LET r == OnWriteHit(s, m)
         IN  Follows(s, e, r, e \o SetToSeq(s.tracked \ r.tracked), d, a)
<1>1. Sound(s, d, e, a) /\ s.icnt # <<>> /\ m = Head(s.icnt) /\ m \in Arriving
  BY DEF Accesses
<1>2. s \in SubPartitions /\ SetOfLines(s)
  BY <1>1 DEF Sound
<1>3. m.block \in Blocks /\ "modified" \in Statuses
  BY <1>1, <1>2, HeadArrives DEF Statuses
<1>4. CASE writeHit = "back"
  <2>1. OnWriteHit(s, m) = Accepted(Reply(Use(s, m.block, "modified"), m))
    BY <1>4 DEF OnWriteHit
  <2> QED BY <1>3, <2>1, AnswerFollows
<1>5. CASE writeHit # "back" /\ ~MissRoom(s, 1)
  <2>1. OnWriteHit(s, m) = s
    BY <1>5 DEF OnWriteHit
  <2>2. Goes(s, OnWriteHit(s, m), d, e, a)
    BY <1>1, <2>1, SameGoes
  <2> QED BY <2>2, GoesFollows
<1>6. CASE writeHit = "through" /\ MissRoom(s, 1)
  <2> PICK z, b : z = Use(s, b, "modified") /\ b = m.block
    OBVIOUS
  <2>1. OnWriteHit(s, m) = Accepted(Send(z, m))
    BY <1>6 DEF OnWriteHit
  <2>2. PICK w : Relined(s, z, w) /\ Keeps(s, w, m.block)
    BY <1>2, <1>3, UseRelines
  <2>3. Goes(s, Accepted(Send(z, m)), d, e, a)
    BY <1>6, <2>2, HitSentGoes
  <2>4. Goes(s, OnWriteHit(s, m), d, e, a)
    BY <2>1, <2>3
  <2> QED BY <2>4, GoesFollows
<1>7. CASE writeHit \notin {"back", "through"} /\ MissRoom(s, 1)
  <2> PICK w : w = Without(s.lines, Line(s, m.block))
    OBVIOUS
  <2> PICK z : z = [s EXCEPT !.lines = w]
    OBVIOUS
  <2>1. OnWriteHit(s, m) = Accepted(Send(z, m))
    BY <1>7 DEF OnWriteHit
  <2>2. Keeps(s, w, m.block)
    BY <1>2, <1>3, EvictKeeps
  <2>3. w \in Seq(CacheLines)
    BY <2>2 DEF Keeps
  <2>4. Relined(s, z, w)
    BY <1>2, <2>3, RelinedIs
  <2>5. Goes(s, Accepted(Send(z, m)), d, e, a)
    BY <1>7, <2>2, <2>4, HitSentGoes
  <2>6. Goes(s, OnWriteHit(s, m), d, e, a)
    BY <2>1, <2>5
  <2> QED BY <2>6, GoesFollows
<1> QED BY <1>4, <1>5, <1>6, <1>7

LEMMA AccessFollows ==
  ASSUME Config, NEW s, NEW d, NEW e \in Seq(1 .. MaxRequests),
         NEW a \in 0 .. MaxRequests, Sound(s, d, e, a), NEW port \in BOOLEAN
  PROVE  LET r == Access(s, port)
         IN  Follows(s, e, r, e \o SetToSeq(s.tracked \ r.tracked), d, a)
<1>1. Goes(s, s, d, e, a)
  BY SameGoes
<1>2. Follows(s, e, s, e \o SetToSeq(s.tracked \ s.tracked), d, a)
  BY <1>1, GoesFollows
<1>3. CASE ~Room(s.toDram) \/ s.icnt = <<>> \/ ~Room(s.reply) \/ ~port
  <2>1. Access(s, port) = s
    BY <1>3 DEF Access
  <2> QED BY <1>2, <2>1
<1>4. CASE ~(~Room(s.toDram) \/ s.icnt = <<>> \/ ~Room(s.reply) \/ ~port)
  <2>1. s \in SubPartitions
    BY DEF Sound
  <2> PICK m : m = Head(s.icnt)
    OBVIOUS
  <2>2. m \in Arriving /\ s.icnt # <<>> /\ Room(s.reply)
    BY <1>4, <2>1, HeadArrives
  <2>3. CASE Probe(s, m.block) = "reservation fail"
    <3>1. Access(s, port) = s
      BY <1>4, <2>3 DEF Access
    <3> QED BY <1>2, <3>1
  <2>4. CASE Probe(s, m.block) = "hit"
    <3>1. Accesses(s, d, e, a, m)
      BY <2>2, <2>4 DEF Accesses
    <3>2. CASE m.kind = "read"
      <4> PICK st : st = StatusOf(s, m.block)
        OBVIOUS
      <4>1. st \in Statuses
        BY <2>1, <2>4, StatusKnown
      <4>2. Access(s, port) = Accepted(Reply(Use(s, m.block, st), m))
        BY <1>4, <2>4, <3>2 DEF Access
      <4> QED BY <2>4, <3>1, <4>1, <4>2, AnswerFollows
    <3>3. CASE m.kind # "read"
      <4>1. Access(s, port) = OnWriteHit(s, m)
        BY <1>4, <2>4, <3>3 DEF Access
      <4> QED BY <2>4, <3>1, <3>3, <4>1, WriteHitFollows
    <3> QED BY <3>2, <3>3
  <2>5. CASE Probe(s, m.block) \notin {"hit", "reservation fail"}
    <3>1. CASE m.kind = "read"
      <4>1. Access(s, port) = ReadMiss(s, m)
        BY <1>4, <2>5, <3>1 DEF Access
      <4>2. Sound(ReadMiss(s, m), d, e, a) /\ ReadMiss(s, m).tracked = s.tracked
        BY <2>2, <2>5, <3>1, ReadMissSound
      <4>3. Goes(s, Access(s, port), d, e, a)
        BY <4>1, <4>2 DEF Goes
      <4> QED BY <4>3, GoesFollows
    <3>2. CASE m.kind # "read"
      <4>1. Access(s, port) = WriteMiss(s, m)
        BY <1>4, <2>5, <3>2 DEF Access
      <4>2. Sound(WriteMiss(s, m), d, e, a) /\ WriteMiss(s, m).tracked = s.tracked
        BY <2>2, <2>5, <3>2, WriteMissSound
      <4>3. Goes(s, Access(s, port), d, e, a)
        BY <4>1, <4>2 DEF Goes
      <4> QED BY <4>3, GoesFollows
    <3> QED BY <3>1, <3>2
  <2> QED BY <2>3, <2>4, <2>5
<1> QED BY <1>3, <1>4

-----------------------------------------------------------------------------
(* The invariant.                                                          *)

LEMMA SameTracked ==
  ASSUME NEW s, NEW r, NEW d, NEW e, NEW a, Sound(s, d, e, a), Sound(r, d, e, a)
  PROVE  s.tracked = r.tracked
BY DEF Sound, Tracks

\* Init, for any contents that are empty.
Empty(s) ==
  /\ s \in SubPartitions /\ s.icnt = <<>> /\ s.lines = <<>> /\ s.mshr = <<>>
  /\ s.ready = <<>> /\ s.fetching = {} /\ s.miss = <<>> /\ s.toDram = <<>>
  /\ s.fromDram = <<>> /\ s.reply = <<>> /\ s.tracked = {}

LEMMA InitEmpty ==
  ASSUME Init
  PROVE  Empty(sp)
<1>1. \A S : <<>> \in Seq(S)
  OBVIOUS
<1>2. DOMAIN <<>> = {} /\ {} \in SUBSET Blocks
  OBVIOUS
<1>3. <<>> \in [{} -> Seq(Waiting) \ {<<>>}]
  BY <1>2
<1>4. <<>> \in Tables
  BY <1>2, <1>3 DEF Tables
<1>5. {} \in SUBSET Waiting /\ {} \in SUBSET (1 .. MaxRequests)
  OBVIOUS
<1>6. /\ sp.icnt = <<>> /\ sp.lines = <<>> /\ sp.mshr = <<>>
      /\ sp.ready = <<>> /\ sp.fetching = {} /\ sp.miss = <<>> /\ sp.toDram = <<>>
      /\ sp.fromDram = <<>> /\ sp.reply = <<>> /\ sp.tracked = {}
  BY DEF Init
<1>7. sp \in SubPartitions
  BY <1>1, <1>4, <1>5 DEF Init, SubPartitions
<1> QED BY <1>6, <1>7 DEF Empty

LEMMA EmptySound ==
  ASSUME Config, NEW s, Empty(s)
  PROVE  Sound(s, {}, <<>>, 0)
<1>1. Len(<<>>) = 0 /\ 1 .. 0 = {}
  OBVIOUS
<1>2. DOMAIN s.mshr = {}
  BY DEF Empty
<1>3. s \in SubPartitions /\ SetOfLines(s) /\ Reserves(s)
  BY <1>1, L2Assumption DEF Empty, SetOfLines, Reserves
<1>4. Matches(s)
  BY <1>1, <1>2 DEF Empty, Matches
<1>5. Limits(s)
  BY <1>2, FS_EmptySet, L2Assumption DEF Limits
<1>6. Sizes(s)
  BY <1>1, L2Assumption DEF Empty, Sizes
<1>7. Tracks(s, <<>>, 0)
  BY <1>1 DEF Empty, Tracks
<1> PICK c : c = Containers(s, {}, <<>>)
  OBVIOUS
<1>8. \A h \in 1 .. 8 : DOMAIN c[h] = {}
  <2>1. /\ c[1] = s.icnt /\ c[2] = Merged(s.mshr) /\ c[3] = s.miss
        /\ c[4] = s.toDram /\ c[5] = Loose({}) /\ c[6] = s.fromDram
        /\ c[7] = s.reply /\ c[8] = <<>>
    BY ContainersAre
  <2>2. DOMAIN Merged(s.mshr) = {}
    BY <1>2 DEF Merged, EntryPlaces
  <2>3. DOMAIN Loose({}) = {} /\ DOMAIN <<>> = {}
    BY DEF Loose
  <2>4. DOMAIN c[1] = {} /\ DOMAIN c[2] = {} /\ DOMAIN c[3] = {}
    BY <2>1, <2>2, <2>3 DEF Empty
  <2>5. DOMAIN c[4] = {} /\ DOMAIN c[5] = {} /\ DOMAIN c[6] = {}
    BY <2>1, <2>3 DEF Empty
  <2>6. DOMAIN c[7] = {} /\ DOMAIN c[8] = {}
    BY <2>1, <2>3 DEF Empty
  <2> QED BY <2>4, <2>5, <2>6
<1>9. \A t : Never(c, t)
  BY <1>8 DEF Never, Has
<1>10. Placed(c, {}, 0)
  BY <1>9 DEF Placed
<1>11. s.fetching = {}
  BY DEF Empty
<1>12. Placed(Containers(s, {}, <<>>), s.fetching, 0)
  BY <1>10, <1>11
<1> QED BY <1>3, <1>4, <1>5, <1>6, <1>7, <1>12 DEF Sound

LEMMA InitSound ==
  ASSUME Init
  PROVE  IInv
<1>1. Config
  BY DEF Init, Config
<1>2. Sound(sp, {}, <<>>, 0)
  BY <1>1, InitEmpty, EmptySound
<1>3. dram = {} /\ asked = 0 /\ ended = <<>>
  BY DEF Init
<1>4. Sound(sp, dram, ended, asked)
  BY <1>2, <1>3
<1>5. asked \in 0 .. MaxRequests /\ dram \in SUBSET Fetches /\ ended \in Seq(1 .. MaxRequests)
  BY <1>3, L2Assumption
<1> QED BY <1>1, <1>4, <1>5 DEF IInv, Config

LEMMA CycleSound ==
  ASSUME Config, NEW s, NEW d, NEW e \in Seq(1 .. MaxRequests),
         NEW a \in 0 .. MaxRequests, Sound(s, d, e, a),
         NEW fill \in BOOLEAN, NEW data \in BOOLEAN
  PROVE  LET r == Access(MissToDram(FromDram(Answer(s), fill)), data)
         IN  Follows(s, e, r, e \o SetToSeq(s.tracked \ r.tracked), d, a)
<1> PICK p : p = Answer(s)
  OBVIOUS
<1>1. Sound(p, d, e, a)
  BY AnswerSound
<1> PICK q : q = FromDram(p, fill)
  OBVIOUS
<1>2. Sound(q, d, e, a)
  BY <1>1, FromDramSound
<1> PICK t : t = MissToDram(q)
  OBVIOUS
<1>3. Sound(t, d, e, a)
  BY <1>2, MissToDramSound
<1> PICK r : r = Access(t, data)
  OBVIOUS
<1>4. Follows(t, e, r, e \o SetToSeq(t.tracked \ r.tracked), d, a)
  BY <1>3, AccessFollows
<1>5. s.tracked = t.tracked
  BY <1>3, SameTracked
<1>6. Follows(s, e, r, e \o SetToSeq(s.tracked \ r.tracked), d, a)
  BY <1>4, <1>5 DEF Follows
<1> QED BY <1>6

\* Sound looks at nothing else but the configuration.
LEMMA Continues ==
  ASSUME Config, UNCHANGED config, Sound(sp', dram', ended', asked'),
         dram' \in SUBSET Fetches, ended' \in Seq(1 .. MaxRequests),
         asked' \in 0 .. MaxRequests
  PROVE  IInv'
<1>1. maxMerged' = maxMerged /\ writeHit' = writeHit /\ writeAllocate' = writeAllocate
  BY DEF config
<1>2. Sound(sp, dram, ended, asked)'
  BY <1>1 DEF Sound, Limits, SetOfLines, Reserves, IsReserved, Matches, Sizes,
     Placed, Tracks
<1> QED BY <1>1, <1>2 DEF IInv, Config

LEMMA ArriveSound ==
  ASSUME IInv, Arrive
  PROVE  IInv'
<1>1. Config /\ Sound(sp, dram, ended, asked) /\ sp \in SubPartitions
  BY DEF IInv, Config, Sound
<1>2. PICK kind \in Kinds, block \in Blocks :
        sp' = [sp EXCEPT !.icnt = Append(@, MemFetch(kind, block, asked + 1)),
                         !.tracked = @ \cup {asked + 1}]
  BY DEF Arrive
<1> PICK m : m = MemFetch(kind, block, asked + 1)
  OBVIOUS
<1>3. asked \in 0 .. (MaxRequests - 1) /\ Room(sp.icnt)
  BY L2Assumption DEF IInv, Arrive
<1>4. asked + 1 \in 1 .. MaxRequests /\ asked + 1 # 0
  BY <1>3, L2Assumption
<1>5. m \in Arriving /\ m.id = asked + 1
  BY <1>4, L2Assumption DEF MemFetch, Arriving, Fetches, AllFetches
<1> PICK r : r = [sp EXCEPT !.icnt = Append(@, m), !.tracked = @ \cup {m.id}]
  OBVIOUS
<1>6. Received(sp, r, m)
  BY <1>1, <1>4, <1>5, ReceivedIs
<1>7. ended \in Seq(1 .. MaxRequests)
  BY DEF IInv
<1>8. Sound(r, dram, ended, asked + 1)
  BY <1>1, <1>3, <1>5, <1>6, <1>7, ReceivedSound
<1>9. sp' = r
  BY <1>2, <1>5
<1>10. UNCHANGED <<config, dram, ended>> /\ asked' = asked + 1
  BY DEF Arrive
<1>11. Sound(sp', dram', ended', asked')
  BY <1>8, <1>9, <1>10
<1> QED BY <1>1, <1>4, <1>7, <1>10, <1>11, Continues DEF IInv

LEMMA CacheCycleSound ==
  ASSUME IInv, CacheCycle
  PROVE  IInv'
<1>1. Config /\ Sound(sp, dram, ended, asked)
  BY DEF IInv, Config
<1>2. PICK fill \in BOOLEAN, data \in BOOLEAN : Stages(fill, data)
  BY DEF CacheCycle
<1> PICK r : r = Access(MissToDram(FromDram(Answer(sp), fill)), data)
  OBVIOUS
<1>3. ended \in Seq(1 .. MaxRequests) /\ asked \in 0 .. MaxRequests
  BY DEF IInv
<1>4. Follows(sp, ended, r, ended \o SetToSeq(sp.tracked \ r.tracked), dram, asked)
  BY <1>1, <1>3, CycleSound
<1>5. sp' = r /\ ended' = ended \o SetToSeq(sp.tracked \ sp'.tracked)
  BY <1>2 DEF Stages
<1>6. UNCHANGED <<config, dram, asked>>
  BY <1>2 DEF Stages
<1>7. Follows(sp, ended, sp', ended', dram, asked)
  BY <1>4, <1>5
<1>8. Sound(sp', dram', ended', asked') /\ ended' \in Seq(1 .. MaxRequests)
  BY <1>6, <1>7 DEF Follows
<1> QED BY <1>1, <1>3, <1>6, <1>8, Continues DEF IInv

LEMMA DramTakeSound ==
  ASSUME IInv, DramTake
  PROVE  IInv'
<1>1. Config /\ Sound(sp, dram, ended, asked) /\ sp \in SubPartitions
  BY DEF IInv, Config, Sound
<1>2. sp.toDram # <<>> /\ UNCHANGED <<config, asked, ended>>
  BY DEF DramTake
<1>3. PICK r : Took(sp, r) /\ sp' = r
  BY <1>1, <1>2, TakeFields DEF DramTake
<1>4. PICK m, dd : m = Head(sp.toDram) /\ dd = dram \cup {m}
  OBVIOUS
<1>5. dram \in SUBSET Fetches /\ asked \in 0 .. MaxRequests
      /\ ended \in Seq(1 .. MaxRequests)
  BY DEF IInv
<1>6. m \in Fetches /\ Sound(r, dd, ended, asked)
  <2>1. sp.toDram # <<>> /\ Took(sp, r) /\ Sound(sp, dram, ended, asked)
    BY <1>1, <1>2, <1>3
  <2>2. m = Head(sp.toDram)
    BY <1>4
  <2>3. dd = dram \cup {m}
    BY <1>4
  <2> QED BY <1>1, <1>5, <2>1, <2>2, <2>3, TakeSound
<1>7. dram' = dd
  BY <1>4 DEF DramTake
<1>8. Sound(sp', dram', ended', asked')
  BY <1>2, <1>3, <1>6, <1>7
<1>9. dram' \in SUBSET Fetches
  BY <1>4, <1>5, <1>6, <1>7
<1> QED BY <1>1, <1>2, <1>5, <1>8, <1>9, Continues

LEMMA DramDoneSound ==
  ASSUME IInv, NEW m \in dram, DramDone(m)
  PROVE  IInv'
<1>1. Config /\ Sound(sp, dram, ended, asked) /\ sp \in SubPartitions
  BY DEF IInv, Config, Sound
<1>2. dram \in SUBSET Fetches /\ asked \in 0 .. MaxRequests
      /\ ended \in Seq(1 .. MaxRequests)
  BY DEF IInv
<1>3. m \in Fetches
  BY <1>2
<1> PICK dd : dd = dram \ {m}
  OBVIOUS
<1>4. UNCHANGED <<config, asked>> /\ dram' = dd
  BY DEF DramDone
<1>5. dd \in SUBSET Fetches /\ Loses(Loose(dram), Loose(dd), m)
  BY <1>2, LooseLoses
<1>6. CASE m.kind \in {"wrbk", "evict"}
  <2> PICK r : r = [sp EXCEPT !.tracked = @ \ {m.id}]
    OBVIOUS
  <2>1. Untracks(sp, r, m.id) /\ sp' = r
    BY <1>1, <1>6, UntracksIs DEF DramDone
  <2>2. CASE m.kind = "wrbk"
    <3>1. m.id \in 1 .. MaxRequests
      <4>1. m.id \in 0 .. MaxRequests /\ m.id # 0
        BY <1>3, <2>2 DEF Fetches, AllFetches
      <4> QED BY <4>1, L2Assumption
    <3> PICK n \in 1 .. MaxRequests : n = m.id
      BY <3>1
    <3>2. ended' = Append(ended, n)
      BY <2>2 DEF DramDone
    <3>3. Append(ended, n) \in Seq(1 .. MaxRequests) /\ Gains(ended, Append(ended, n), n)
      BY <1>2, AppendOf, AppendGains
    <3>4. r.tracked = sp.tracked \ {n} /\ Tracks(sp, ended, asked)
      BY <1>1, <2>1 DEF Untracks, Sound
    <3>5. Tracks(r, Append(ended, n), asked)
      BY <1>2, <3>4, TracksOneLess
    <3> PICK ee : ee = Append(ended, n)
      OBVIOUS
    <3>6. Gains(ended, ee, m.id) /\ Tracks(r, ee, asked)
      BY <3>3, <3>5
    <3>7. Sound(r, dd, ee, asked)
      BY <1>1, <1>2, <1>3, <1>5, <2>1, <2>2, <3>6, DeletedSound
    <3>8. Sound(sp', dram', ended', asked')
      BY <1>4, <2>1, <3>2, <3>7
    <3> QED BY <1>1, <1>2, <1>4, <1>5, <3>2, <3>3, <3>8, Continues
  <2>3. CASE m.kind = "evict"
    <3>1. ended' = ended
      BY <2>3 DEF DramDone
    <3>2. Sound(r, dd, ended, asked)
      BY <1>1, <1>2, <1>3, <1>5, <2>1, <2>3, WrittenSound
    <3>3. Sound(sp', dram', ended', asked')
      BY <1>4, <2>1, <3>1, <3>2
    <3> QED BY <1>1, <1>2, <1>4, <1>5, <3>1, <3>3, Continues
  <2> QED BY <1>6, <2>2, <2>3
<1>7. CASE m.kind \notin {"wrbk", "evict"}
  <2> PICK r : r = [sp EXCEPT !.fromDram = Append(@, m)]
    OBVIOUS
  <2>1. m \in Returning
    BY <1>3, <1>7 DEF Returning, Fetches, AllFetches
  <2>2. Served(sp, r, m) /\ sp' = r /\ ended' = ended /\ Room(sp.fromDram)
    BY <1>1, <1>7, <2>1, ServedIs DEF DramDone
  <2>3. Sound(r, dd, ended, asked)
    BY <1>1, <1>2, <2>1, <2>2, ServedSound
  <2>4. Sound(sp', dram', ended', asked')
    BY <1>4, <2>2, <2>3
  <2> QED BY <1>1, <1>2, <1>4, <1>5, <2>2, <2>4, Continues
<1> QED BY <1>6, <1>7

LEMMA PopSound ==
  ASSUME IInv, Pop
  PROVE  IInv'
<1>1. Config /\ Sound(sp, dram, ended, asked) /\ sp \in SubPartitions
  BY DEF IInv, Config, Sound
<1>2. asked \in 0 .. MaxRequests /\ ended \in Seq(1 .. MaxRequests)
      /\ dram \in SUBSET Fetches
  BY DEF IInv
<1>3. sp.reply # <<>> /\ UNCHANGED <<config, dram, asked>>
  BY DEF Pop
<1> PICK m : m = Head(sp.reply)
  OBVIOUS
<1>4. sp.reply \in Seq(Answers)
  BY <1>1 DEF SubPartitions
<1>5. m \in Answers
  BY <1>3, <1>4, TailOf
<1>6. m.id \in 1 .. MaxRequests
  <2>1. m.id \in 0 .. MaxRequests /\ m.id # 0
    BY <1>5 DEF Answers, Fetches, AllFetches
  <2> QED BY <2>1, L2Assumption
<1> PICK n \in 1 .. MaxRequests : n = m.id
  BY <1>6
<1> PICK r : r = [sp EXCEPT !.reply = Tail(@), !.tracked = @ \ {Head(sp.reply).id}]
  OBVIOUS
<1>7. Popped(sp, r)
  BY <1>1, <1>3, PoppedIs
<1>8. sp' = r /\ ended' = Append(ended, n)
  BY DEF Pop
<1>9. Append(ended, n) \in Seq(1 .. MaxRequests) /\ Gains(ended, Append(ended, n), n)
  BY <1>2, AppendOf, AppendGains
<1>10. r.tracked = sp.tracked \ {n} /\ Tracks(sp, ended, asked)
  BY <1>1, <1>7 DEF Popped, Sound
<1>11. Tracks(r, Append(ended, n), asked)
  BY <1>2, <1>10, TracksOneLess
<1> PICK ee : ee = Append(ended, n)
  OBVIOUS
<1>12. Gains(ended, ee, m.id) /\ Tracks(r, ee, asked)
  BY <1>9, <1>11
<1>13. Sound(r, dram, ee, asked)
  BY <1>1, <1>2, <1>3, <1>5, <1>7, <1>12, PoppedSound
<1>14. Sound(sp', dram', ended', asked')
  BY <1>3, <1>8, <1>13
<1> QED BY <1>1, <1>2, <1>3, <1>8, <1>9, <1>14, Continues

LEMMA StutterSound ==
  ASSUME IInv, UNCHANGED vars
  PROVE  IInv'
BY DEF IInv, vars, config, Sound, Limits, SetOfLines, Reserves, IsReserved,
   Matches, Sizes, Placed, Tracks

\* After every call of cache_cycle(), push(), top() and pop(), and after DRAM
\* has taken or answered a request, the queues, MSHRs and lines agree and
\* every request and every fetch is in one place.
THEOREM Inductive == Spec => []IInv
<1>1. Init => IInv
  BY InitSound
<1>2. IInv /\ [Next]_vars => IInv'
  BY ArriveSound, CacheCycleSound, DramTakeSound, DramDoneSound, PopSound,
     StutterSound DEF Next
<1> QED BY <1>1, <1>2, PTL DEF Spec

-----------------------------------------------------------------------------
(* What the invariant says of the properties of L2Cache.                   *)

LEMMA ToSetIs ==
  ASSUME NEW S, NEW q \in Seq(S)
  PROVE  ToSet(q) = {q[i] : i \in 1 .. Len(q)}
BY LengthOf DEF ToSet

LEMMA SeqWider ==
  ASSUME NEW S, NEW T, S \subseteq T, NEW q \in Seq(S)
  PROVE  q \in Seq(T)
<1>1. q \in [1 .. Len(q) -> S] /\ Len(q) \in Nat
  OBVIOUS
<1>2. q \in [1 .. Len(q) -> T]
  BY <1>1
<1> QED BY <1>1, <1>2

LEMMA TypesSound ==
  ASSUME IInv
  PROVE  TypeOK
<1>1. sp \in SubPartitions
  BY DEF IInv, Sound
<1>2. /\ Fetches \subseteq AllFetches /\ Arriving \subseteq AllFetches
      /\ Returning \subseteq AllFetches /\ Answers \subseteq AllFetches
      /\ Waiting \subseteq AllFetches
  BY DEF Fetches, Arriving, Returning, Answers, Waiting
<1>3. sp.icnt \in Seq(AllFetches)
  BY <1>1, <1>2, SeqWider DEF SubPartitions
<1>4. sp.miss \in Seq(AllFetches)
  BY <1>1, <1>2, SeqWider DEF SubPartitions
<1>5. sp.toDram \in Seq(AllFetches)
  BY <1>1, <1>2, SeqWider DEF SubPartitions
<1>6. sp.fromDram \in Seq(AllFetches)
  BY <1>1, <1>2, SeqWider DEF SubPartitions
<1>7. sp.reply \in Seq(AllFetches)
  BY <1>1, <1>2, SeqWider DEF SubPartitions
<1>8. DOMAIN sp.mshr \subseteq Blocks
  BY <1>1, TableOf DEF SubPartitions
<1>9. ASSUME NEW b \in DOMAIN sp.mshr
      PROVE  sp.mshr[b] \in Seq(AllFetches) \ {<<>>}
  <2>1. sp.mshr[b] \in Seq(Waiting) /\ sp.mshr[b] # <<>>
    BY <1>1, TableOf DEF SubPartitions
  <2> QED BY <1>2, <2>1, SeqWider
<1>10. sp.fetching \subseteq AllFetches /\ dram \subseteq AllFetches
  BY <1>1, <1>2 DEF SubPartitions, IInv
<1>11. /\ sp.ready \in Seq(Blocks) /\ sp.tracked \subseteq 1 .. MaxRequests
       /\ sp.lines \in Seq([block : Blocks,
                            status : {"reserved", "valid", "modified"}])
  BY <1>1 DEF SubPartitions, CacheLines, Statuses
<1>12. /\ maxMerged \in MergeLimits /\ writeHit \in WriteHits
       /\ writeAllocate \in Allocations
       /\ asked \in 0 .. MaxRequests
       /\ ended \in Seq(1 .. MaxRequests)
  BY DEF IInv
<1> QED BY <1>3, <1>4, <1>5, <1>6, <1>7, <1>8, <1>9, <1>10, <1>11, <1>12 DEF TypeOK

LEMMA BoundedSound ==
  ASSUME IInv
  PROVE  QueuesBounded
<1>1. TypeOK
  BY TypesSound
<1>2. Sizes(sp) /\ Limits(sp) /\ SetOfLines(sp)
  BY DEF IInv, Sound
<1> QED BY <1>1, <1>2 DEF Sizes, Limits, SetOfLines, QueuesBounded

\* A fetch is below the cache.
LEMMA FetchBelow ==
  ASSUME IInv, NEW m \in sp.fetching
  PROVE  m \in Below
<1>1. sp \in SubPartitions /\ Placed(Containers(sp, dram, ended), sp.fetching, asked)
  BY DEF IInv, Sound
<1>2. /\ sp.miss \in Seq(Fetches) /\ sp.toDram \in Seq(Fetches)
      /\ sp.fromDram \in Seq(Returning)
  BY <1>1 DEF SubPartitions
<1> PICK c : c = Containers(sp, dram, ended)
  OBVIOUS
<1>3. Once(c, FetchToken(m))
  BY <1>1 DEF Placed
<1>4. PICK h \in 1 .. 8 : Has(c[h], FetchToken(m)[h])
  BY <1>3 DEF Once
<1>5. /\ c[3] = sp.miss /\ c[4] = sp.toDram /\ c[5] = Loose(dram)
      /\ c[6] = sp.fromDram
  BY ContainersAre
<1>6. /\ FetchToken(m)[1] = {} /\ FetchToken(m)[2] = {} /\ FetchToken(m)[3] = {m}
      /\ FetchToken(m)[4] = {m} /\ FetchToken(m)[5] = {m}
      /\ FetchToken(m)[6] = {m} /\ FetchToken(m)[7] = {}
      /\ FetchToken(m)[8] = {}
  BY TokenParts
<1>7. h \in {1, 2, 3, 4, 5, 6, 7, 8}
  OBVIOUS
<1>8. h \notin {1, 2, 7, 8}
  BY <1>4, <1>6 DEF Has
<1>9. /\ ToSet(sp.miss) = {sp.miss[i] : i \in DOMAIN sp.miss}
      /\ ToSet(sp.toDram) = {sp.toDram[i] : i \in DOMAIN sp.toDram}
      /\ ToSet(sp.fromDram) = {sp.fromDram[i] : i \in DOMAIN sp.fromDram}
  BY DEF ToSet
<1>10. CASE h = 3
  BY <1>4, <1>5, <1>6, <1>9, <1>10 DEF Has, Below
<1>11. CASE h = 4
  BY <1>4, <1>5, <1>6, <1>9, <1>11 DEF Has, Below
<1>12. CASE h = 5
  <2>1. \E p \in DOMAIN Loose(dram) : Loose(dram)[p] = m
    BY <1>4, <1>5, <1>6, <1>12 DEF Has
  <2>2. m \in dram
    BY <2>1 DEF Loose
  <2> QED BY <2>2 DEF Below
<1>13. CASE h = 6
  BY <1>4, <1>5, <1>6, <1>9, <1>13 DEF Has, Below
<1> QED BY <1>7, <1>8, <1>10, <1>11, <1>12, <1>13

LEMMA FetchSound ==
  ASSUME IInv
  PROVE  FetchMatchesEntry
<1>1. sp \in SubPartitions /\ Matches(sp) /\ Reserves(sp) /\ SetOfLines(sp)
  BY DEF IInv, Sound
<1>2. ASSUME NEW m \in sp.fetching
      PROVE  /\ m \in Below
             /\ m.block \in DOMAIN sp.mshr /\ Head(sp.mshr[m.block]) = m
             /\ \E i \in Line(sp, m.block) : sp.lines[i].status = "reserved"
  <2>1. m.block \in DOMAIN sp.mshr /\ sp.mshr[m.block][1] = m
    BY <1>1 DEF Matches
  <2>2. Head(sp.mshr[m.block]) = m
    <3>1. sp.mshr[m.block] \in Seq(Waiting) /\ sp.mshr[m.block] # <<>>
      BY <1>1, <2>1, TableOf DEF SubPartitions
    <3> QED BY <2>1, <3>1
  <2>3. PICK i \in 1 .. Len(sp.lines) :
          sp.lines[i].block = m.block /\ sp.lines[i].status = "reserved"
    BY <1>1 DEF Reserves, IsReserved
  <2>4. i \in Line(sp, m.block)
    BY <1>1, <2>3, PlaceOfBlock
  <2> QED BY <2>1, <2>2, <2>3, <2>4, FetchBelow
<1>3. sp.ready \in Seq(Blocks)
  BY <1>1 DEF SubPartitions
<1>4. DOMAIN sp.ready = 1 .. Len(sp.ready) /\ ToSet(sp.ready) = {sp.ready[i] : i \in 1 .. Len(sp.ready)}
  BY <1>3, LengthOf, ToSetIs
<1>5. IsInjective(sp.ready)
  BY <1>1, <1>4 DEF Matches, IsInjective
<1>6. ToSet(sp.ready) \cup {m.block : m \in sp.fetching} = DOMAIN sp.mshr
  BY <1>1, <1>4 DEF Matches
<1>7. ToSet(sp.ready) \cap {m.block : m \in sp.fetching} = {}
  BY <1>1, <1>4 DEF Matches
<1> QED BY <1>2, <1>5, <1>6, <1>7 DEF FetchMatchesEntry

\* The places of container q that hold a member of C.
InPlaces(q, C) == {p \in DOMAIN q : q[p] \in C}

LEMMA OneOrNone ==
  ASSUME NEW q, NEW C, Single(q, C)
  PROVE  \/ ~Has(q, C) /\ InPlaces(q, C) = {}
         \/ Has(q, C) /\ \E p : InPlaces(q, C) = {p}
<1>1. CASE ~Has(q, C)
  BY <1>1 DEF Has, InPlaces
<1>2. CASE Has(q, C)
  <2>1. PICK p \in DOMAIN q : q[p] \in C
    BY <1>2 DEF Has
  <2>2. InPlaces(q, C) = {p}
    BY <2>1 DEF Single, InPlaces
  <2> QED BY <1>2, <2>2
<1> QED BY <1>1, <1>2

Tags == <<"icnt", "mshr", "miss", "toDram", "dram", "fromDram", "reply", "ended">>

\* The places of a token, each with the name of its container.
Tagged(c, t) == UNION {{Tags[h]} \X InPlaces(c[h], t[h]) : h \in 1 .. 8}

LEMMA OncePlace ==
  ASSUME NEW c, NEW t, Once(c, t)
  PROVE  \E x : Tagged(c, t) = {x}
<1>1. PICK h \in 1 .. 8 : Has(c[h], t[h])
  BY DEF Once
<1>2. \A g \in 1 .. 8 : g # h => ~Has(c[g], t[g])
  BY <1>1 DEF Once
<1>3. \A g \in 1 .. 8 : g # h => InPlaces(c[g], t[g]) = {}
  BY <1>2 DEF Has, InPlaces
<1>4. Single(c[h], t[h])
  BY DEF Once
<1>5. PICK p : InPlaces(c[h], t[h]) = {p}
  BY <1>1, <1>4, OneOrNone
<1>6. \A g \in 1 .. 8 : g # h => {Tags[g]} \X InPlaces(c[g], t[g]) = {}
  BY <1>3
<1>7. {Tags[h]} \X InPlaces(c[h], t[h]) = {<<Tags[h], p>>}
  BY <1>5
<1>8. Tagged(c, t) = {<<Tags[h], p>>}
  BY <1>6, <1>7 DEF Tagged
<1> QED BY <1>8

LEMMA NeverPlace ==
  ASSUME NEW c, NEW t, Never(c, t)
  PROVE  Tagged(c, t) = {}
<1>1. \A g \in 1 .. 8 : InPlaces(c[g], t[g]) = {}
  BY DEF Never, Has, InPlaces
<1> QED BY <1>1 DEF Tagged

LEMMA QueuePlaces ==
  ASSUME NEW n \in 1 .. MaxRequests, NEW q \in Seq(Arriving)
  PROVE  PlacesIn(q, n) = InPlaces(q, Named(n))
<1>1. \A i \in DOMAIN q : q[i] \in Arriving
  OBVIOUS
<1> QED BY <1>1 DEF PlacesIn, InPlaces, Named

LEMMA AnswerPlaces ==
  ASSUME NEW n \in 1 .. MaxRequests, NEW q \in Seq(Answers)
  PROVE  PlacesIn(q, n) = InPlaces(q, Named(n))
<1>1. \A i \in DOMAIN q : q[i] \in Answers
  OBVIOUS
<1>2. Answers \subseteq Arriving
  BY DEF Answers, Arriving
<1> QED BY <1>1, <1>2 DEF PlacesIn, InPlaces, Named

LEMMA WriteNamed ==
  ASSUME NEW n \in 1 .. MaxRequests, NEW m \in Fetches
  PROVE  m.id = n /\ IsWrite(m) <=> m \in WritesNamed(n)
BY DEF IsWrite, WritesNamed, Arriving

LEMMA WritePlaces ==
  ASSUME NEW n \in 1 .. MaxRequests, NEW q \in Seq(Fetches)
  PROVE  WritesIn(q, n) = InPlaces(q, WritesNamed(n))
<1>1. \A i \in DOMAIN q : q[i] \in Fetches
  OBVIOUS
<1>2. \A i \in DOMAIN q : q[i].id = n /\ IsWrite(q[i]) <=> q[i] \in WritesNamed(n)
  BY <1>1, WriteNamed
<1> QED BY <1>2 DEF WritesIn, PlacesIn, InPlaces

LEMMA DramPlaces ==
  ASSUME NEW n \in 1 .. MaxRequests, NEW d \in SUBSET Fetches
  PROVE  {m \in d : m.id = n /\ IsWrite(m)} = InPlaces(Loose(d), WritesNamed(n))
<1>1. \A m \in d : m.id = n /\ IsWrite(m) <=> m \in WritesNamed(n)
  BY WriteNamed
<1> QED BY <1>1 DEF InPlaces, Loose

LEMMA WaitingNamed ==
  ASSUME NEW n \in 1 .. MaxRequests, NEW m \in Waiting
  PROVE  m.id = n <=> m \in Named(n)
<1>1. n # 0
  OBVIOUS
<1> QED BY <1>1 DEF Named, Arriving, Waiting, Fetches

LEMMA EntriesPlaces ==
  ASSUME NEW n \in 1 .. MaxRequests, NEW f \in Tables
  PROVE  UNION {{b} \X PlacesIn(f[b], n) : b \in DOMAIN f}
           = InPlaces(Merged(f), Named(n))
<1>1. \A b \in DOMAIN f : f[b] \in Seq(Waiting)
  BY TableOf
<1>2. ASSUME NEW b \in DOMAIN f
      PROVE  PlacesIn(f[b], n) = {i \in 1 .. Len(f[b]) : f[b][i] \in Named(n)}
  <2> PICK q \in Seq(Waiting) : q = f[b]
    BY <1>1
  <2>1. DOMAIN q = 1 .. Len(q) /\ \A i \in 1 .. Len(q) : q[i] \in Waiting
    OBVIOUS
  <2>2. \A i \in 1 .. Len(q) : q[i].id = n <=> q[i] \in Named(n)
    BY <2>1, WaitingNamed
  <2>3. PlacesIn(q, n) = {i \in 1 .. Len(q) : q[i] \in Named(n)}
    BY <2>1, <2>2 DEF PlacesIn
  <2> QED BY <2>3
<1>3. ASSUME NEW x
      PROVE  x \in UNION {{b} \X PlacesIn(f[b], n) : b \in DOMAIN f}
               <=> \E b \in DOMAIN f : \E i \in 1 .. Len(f[b]) :
                     x = <<b, i>> /\ f[b][i] \in Named(n)
  <2>1. x \in UNION {{b} \X PlacesIn(f[b], n) : b \in DOMAIN f}
          <=> \E b \in DOMAIN f : x \in {b} \X PlacesIn(f[b], n)
    OBVIOUS
  <2>2. ASSUME NEW b \in DOMAIN f
        PROVE  x \in {b} \X PlacesIn(f[b], n)
                 <=> \E i \in 1 .. Len(f[b]) : x = <<b, i>> /\ f[b][i] \in Named(n)
    BY <1>2
  <2> QED BY <2>1, <2>2
<1>4. DOMAIN Merged(f) = EntryPlaces(f)
      /\ \A p \in EntryPlaces(f) : Merged(f)[p] = f[p[1]][p[2]]
  BY DEF Merged
<1>5. ASSUME NEW x
      PROVE  x \in InPlaces(Merged(f), Named(n))
               <=> \E b \in DOMAIN f : \E i \in 1 .. Len(f[b]) :
                     x = <<b, i>> /\ f[b][i] \in Named(n)
  <2>1. x \in InPlaces(Merged(f), Named(n))
          <=> x \in EntryPlaces(f) /\ f[x[1]][x[2]] \in Named(n)
    BY <1>4 DEF InPlaces
  <2>2. x \in EntryPlaces(f)
          <=> \E b \in DOMAIN f : \E i \in 1 .. Len(f[b]) : x = <<b, i>>
    BY DEF EntryPlaces
  <2> QED BY <2>1, <2>2
<1> QED BY <1>3, <1>5

LEMMA PlacesAre ==
  ASSUME IInv, NEW n \in 1 .. MaxRequests,
         NEW c, c = Containers(sp, dram, ended), NEW t, t = RequestToken(n)
  PROVE  Places(n) = Tagged(c, t)
<1>1. sp \in SubPartitions /\ dram \in SUBSET Fetches /\ ended \in Seq(1 .. MaxRequests)
  BY DEF IInv, Sound
<1>2. /\ t[1] = Named(n) /\ t[2] = Named(n) /\ t[3] = WritesNamed(n)
      /\ t[4] = WritesNamed(n) /\ t[5] = WritesNamed(n) /\ t[6] = WritesNamed(n)
      /\ t[7] = Named(n) /\ t[8] = {n}
  BY TokenParts
<1>3. /\ c[1] = sp.icnt /\ c[2] = Merged(sp.mshr) /\ c[3] = sp.miss
      /\ c[4] = sp.toDram /\ c[5] = Loose(dram) /\ c[6] = sp.fromDram
      /\ c[7] = sp.reply /\ c[8] = ended
  BY ContainersAre
<1>4. PlacesIn(sp.icnt, n) = InPlaces(c[1], t[1])
  BY <1>1, <1>2, <1>3, QueuePlaces DEF SubPartitions
<1>5. UNION {{b} \X PlacesIn(sp.mshr[b], n) : b \in DOMAIN sp.mshr}
        = InPlaces(c[2], t[2])
  BY <1>1, <1>2, <1>3, EntriesPlaces DEF SubPartitions
<1>6. WritesIn(sp.miss, n) = InPlaces(c[3], t[3])
  BY <1>1, <1>2, <1>3, WritePlaces DEF SubPartitions
<1>7. WritesIn(sp.toDram, n) = InPlaces(c[4], t[4])
  BY <1>1, <1>2, <1>3, WritePlaces DEF SubPartitions
<1>8. {m \in dram : m.id = n /\ IsWrite(m)} = InPlaces(c[5], t[5])
  BY <1>1, <1>2, <1>3, DramPlaces
<1>9. WritesIn(sp.fromDram, n) = InPlaces(c[6], t[6])
  <2>1. sp.fromDram \in Seq(Returning) /\ Returning \subseteq Fetches
    BY <1>1 DEF SubPartitions, Returning
  <2>2. sp.fromDram \in Seq(Fetches)
    BY <2>1, SeqWider
  <2> QED BY <1>2, <1>3, <2>2, WritePlaces
<1>10. PlacesIn(sp.reply, n) = InPlaces(c[7], t[7])
  BY <1>1, <1>2, <1>3, AnswerPlaces DEF SubPartitions
<1>11. {i \in DOMAIN ended : ended[i] = n} = InPlaces(c[8], t[8])
  BY <1>2, <1>3 DEF InPlaces
<1>12. /\ Tags[1] = "icnt" /\ Tags[2] = "mshr" /\ Tags[3] = "miss"
       /\ Tags[4] = "toDram" /\ Tags[5] = "dram" /\ Tags[6] = "fromDram"
       /\ Tags[7] = "reply" /\ Tags[8] = "ended"
  BY DEF Tags
<1> PICK A1, A2, A3, A4, A5, A6, A7, A8 :
      /\ A1 = InPlaces(c[1], t[1]) /\ A2 = InPlaces(c[2], t[2])
      /\ A3 = InPlaces(c[3], t[3]) /\ A4 = InPlaces(c[4], t[4])
      /\ A5 = InPlaces(c[5], t[5]) /\ A6 = InPlaces(c[6], t[6])
      /\ A7 = InPlaces(c[7], t[7]) /\ A8 = InPlaces(c[8], t[8])
  OBVIOUS
<1>13. Places(n) = UNION {{"icnt"} \X A1, {"miss"} \X A3, {"toDram"} \X A4,
                          {"dram"} \X A5, {"fromDram"} \X A6, {"reply"} \X A7,
                          {"mshr"} \X A2, {"ended"} \X A8}
  BY <1>4, <1>5, <1>6, <1>7, <1>8, <1>9, <1>10, <1>11 DEF Places
<1>14. 1 .. 8 = {1, 2, 3, 4, 5, 6, 7, 8}
  OBVIOUS
<1>15. {{Tags[h]} \X InPlaces(c[h], t[h]) : h \in 1 .. 8}
         = {{"icnt"} \X A1, {"miss"} \X A3, {"toDram"} \X A4,
            {"dram"} \X A5, {"fromDram"} \X A6, {"reply"} \X A7,
            {"mshr"} \X A2, {"ended"} \X A8}
  BY <1>12, <1>14
<1> QED BY <1>13, <1>15 DEF Tagged

LEMMA OnceSound ==
  ASSUME IInv
  PROVE  OncePerRequest
<1>1. QueuesBounded
  BY BoundedSound
<1>2. /\ Placed(Containers(sp, dram, ended), sp.fetching, asked)
      /\ Tracks(sp, ended, asked) /\ asked \in 0 .. MaxRequests
      /\ ended \in Seq(1 .. MaxRequests)
  BY DEF IInv, Sound
<1> PICK c : c = Containers(sp, dram, ended)
  OBVIOUS
<1>3. ASSUME NEW n \in 1 .. MaxRequests
      PROVE  Cardinality(Places(n)) = IF n <= asked THEN 1 ELSE 0
  <2>1. CASE n <= asked
    <3>1. n \in 1 .. asked
      BY <1>2, <2>1
    <3>2. Once(c, RequestToken(n))
      BY <1>2, <3>1 DEF Placed
    <3>3. PICK x : Places(n) = {x}
      BY <3>2, OncePlace, PlacesAre
    <3> QED BY <2>1, <3>3, FS_Singleton
  <2>2. CASE ~(n <= asked)
    <3>1. n \in (asked + 1) .. MaxRequests
      BY <1>2, <2>2, L2Assumption
    <3>2. Never(c, RequestToken(n))
      BY <1>2, <3>1 DEF Placed
    <3>3. Places(n) = {}
      BY <3>2, NeverPlace, PlacesAre
    <3> QED BY <2>2, <3>3, FS_EmptySet
  <2> QED BY <2>1, <2>2
<1>4. sp.tracked = 1 .. asked \ ToSet(ended)
  BY <1>2, ToSetIs DEF Tracks
<1> QED BY <1>1, <1>3, <1>4 DEF OncePerRequest

\* An MSHR entry that is not ready has exactly one fetch under way, of the
\* request that made the entry, and its line stays reserved: what
\* baseline_cache::fill() and mshr_table::mark_ready() find is what
\* send_read_request() left, although lines move and requests merge meanwhile.
THEOREM FetchMatched == Spec => []FetchMatchesEntry
BY Inductive, FetchSound, PTL

\* A request that m_request_tracker holds is in one queue of the sub-partition
\* or below it, and one that has been answered or deleted in none, whichever
\* of hit, merge, eviction and write policy it meets; no queue outgrows its
\* size.
THEOREM AnsweredOnce == Spec => []OncePerRequest
BY Inductive, OnceSound, PTL

-----------------------------------------------------------------------------
(* Modified lines.                                                         *)

Modified(s, b) == HasLine(s.lines, b, "modified")

\* No line of block b is left, and its write-back waits.
Leaves(r, b) ==
  /\ \A i \in 1 .. Len(r.lines) : r.lines[i].block # b
  /\ \E i \in 1 .. Len(r.miss) : r.miss[i] = MemFetch("evict", b, 0)

\* From s to r no modified line is dropped.
Saves(s, r) == \A b \in Blocks : Modified(s, b) => Modified(r, b) \/ Leaves(r, b)

LEMMA SameSaves ==
  ASSUME NEW s, NEW r, r.lines = s.lines
  PROVE  \A b : Modified(s, b) => Modified(r, b)
BY DEF Modified

LEMMA AnswerSaves ==
  ASSUME NEW s, NEW d, NEW e, NEW a, Sound(s, d, e, a), NEW b, Modified(s, b)
  PROVE  Modified(Answer(s), b)
<1>1. s \in SubPartitions /\ Matches(s)
  BY DEF Sound
<1>2. CASE s.ready # <<>> /\ Room(s.reply)
  <2>1. Answer(s).lines = s.lines
    BY <1>1, <1>2, AnswerFields
  <2> QED BY <2>1, SameSaves
<1>3. CASE ~(s.ready # <<>> /\ Room(s.reply))
  BY <1>3 DEF Answer
<1> QED BY <1>2, <1>3

\* A fill finds a reserved line, so it changes no modified one.
LEMMA FillSaves ==
  ASSUME NEW s, SetOfLines(s), Reserves(s), NEW m \in s.fetching,
         NEW r, Fills(s.lines, r.lines, m.block), NEW b, Modified(s, b)
  PROVE  Modified(r, b)
<1>1. PICK j \in 1 .. Len(s.lines) :
        s.lines[j].block = b /\ s.lines[j].status = "modified"
  BY DEF Modified, HasLine
<1>2. PICK i \in 1 .. Len(s.lines) :
        s.lines[i].block = m.block /\ s.lines[i].status = "reserved"
  BY DEF Reserves, IsReserved
<1>3. s.lines[j].block # m.block
  BY <1>1, <1>2 DEF SetOfLines
<1>4. Len(r.lines) = Len(s.lines) /\ r.lines[j] = s.lines[j]
  BY <1>1, <1>3 DEF Fills
<1> QED BY <1>1, <1>4 DEF Modified, HasLine

LEMMA FromDramSaves ==
  ASSUME NEW s, NEW d, NEW e, NEW a, Sound(s, d, e, a), NEW port \in BOOLEAN,
         NEW b, Modified(s, b)
  PROVE  Modified(FromDram(s, port), b)
<1>1. s \in SubPartitions /\ SetOfLines(s) /\ Reserves(s)
  BY DEF Sound
<1> PICK m : m = Head(s.fromDram)
  OBVIOUS
<1>2. CASE FromDram(s, port) = s
  BY <1>2
<1>3. CASE s.fromDram # <<>> /\ m \in s.fetching /\ port
  <2> PICK r : r = [Fill(s, m) EXCEPT !.fromDram = Tail(@)]
    OBVIOUS
  <2>1. Filled(s, r, m)
    BY <1>1, <1>3, FillFields
  <2>2. Fills(s.lines, r.lines, m.block)
    BY <2>1 DEF Filled
  <2>3. FromDram(s, port) = r
    BY <1>3 DEF FromDram
  <2> QED BY <1>1, <1>3, <2>2, <2>3, FillSaves
<1>4. CASE s.fromDram # <<>> /\ m \notin s.fetching /\ Room(s.reply)
  <2>1. FromDram(s, port) = [s EXCEPT !.reply = Append(@, m), !.fromDram = Tail(@)]
    BY <1>4 DEF FromDram
  <2>2. FromDram(s, port).lines = s.lines
    BY <1>1, <2>1 DEF SubPartitions
  <2> QED BY <2>2, SameSaves
<1>5. FromDram(s, port) = s \/ s.fromDram # <<>>
  BY DEF FromDram
<1>6. s.fromDram # <<>> /\ m \in s.fetching /\ ~port => FromDram(s, port) = s
  BY DEF FromDram
<1>7. s.fromDram # <<>> /\ m \notin s.fetching /\ ~Room(s.reply) => FromDram(s, port) = s
  BY DEF FromDram
<1> QED BY <1>2, <1>3, <1>4, <1>5, <1>6, <1>7

LEMMA MissToDramSaves ==
  ASSUME NEW s \in SubPartitions, NEW b, Modified(s, b)
  PROVE  Modified(MissToDram(s), b)
<1>1. MissToDram(s).lines = s.lines
  BY DEF MissToDram, SubPartitions
<1> QED BY <1>1, SameSaves

\* The lines are those of other blocks that were there, but for the victim.
LEMMA UseComes ==
  ASSUME NEW s \in SubPartitions, SetOfLines(s), NEW b \in Blocks,
         NEW st \in Statuses, NEW w, w = Use(s, b, st).lines,
         NEW j \in 1 .. Len(w)
  PROVE  \/ w[j].block = b
         \/ \E i \in 1 .. Len(s.lines) : i \notin Victim(s, b) /\ w[j] = s.lines[i]
<1> PICK q \in Seq(CacheLines) : q = s.lines
  BY DEF SubPartitions
<1> PICK n \in Nat : n = Len(q)
  BY LengthOf
<1>1. Line(s, b) = {} \/ \E k \in 1 .. n : Line(s, b) = {k}
  BY PlaceOfBlock
<1>2. /\ Victim(s, b) = {} \/ \E k \in 1 .. n : Victim(s, b) = {k}
      /\ Victim(s, b) # {} => Line(s, b) = {}
  BY VictimIs
<1> PICK K : K = Line(s, b) \cup Victim(s, b)
  OBVIOUS
<1>3. K = {} \/ \E k \in 1 .. n : K = {k}
  BY <1>1, <1>2
<1> PICK v : v = Without(q, K)
  OBVIOUS
<1>4. Thins(q, v, K)
  BY <1>3, WithoutThins
<1>5. v \in Seq(CacheLines) /\ \A h \in 1 .. Len(v) : \E i \in 1 .. n : i \notin K /\ v[h] = q[i]
  BY <1>4 DEF Thins
<1>6. [block |-> b, status |-> st] \in CacheLines
  BY DEF CacheLines
<1> PICK x \in CacheLines : x = [block |-> b, status |-> st]
  BY <1>6
<1>7. x.block = b
  OBVIOUS
<1>8. w = Append(v, x)
  BY DEF Use, SubPartitions
<1> PICK l \in Nat : l = Len(v)
  BY <1>5, LengthOf
<1>9. Len(w) = l + 1 /\ w[l + 1] = x /\ \A h \in 1 .. l : w[h] = v[h]
  BY <1>5, <1>8, AppendOf
<1>10. j = l + 1 \/ j \in 1 .. l
  BY <1>9
<1>11. CASE j = l + 1
  BY <1>7, <1>9, <1>11
<1>12. CASE j \in 1 .. l
  <2>1. w[j] = v[j]
    BY <1>9, <1>12
  <2>2. PICK i \in 1 .. n : i \notin K /\ v[j] = q[i]
    BY <1>5, <1>12
  <2>3. i \notin Victim(s, b) /\ w[j] = s.lines[i]
    BY <2>1, <2>2
  <2> QED BY <2>3
<1> QED BY <1>10, <1>11, <1>12

\* A hit keeps its line modified, or makes it so.
LEMMA HitSaves ==
  ASSUME NEW s \in SubPartitions, SetOfLines(s), NEW c \in Blocks,
         Probe(s, c) = "hit", NEW st \in Statuses,
         st = "modified" \/ st = StatusOf(s, c),
         NEW r, r.lines = Use(s, c, st).lines, NEW b, Modified(s, b)
  PROVE  Modified(r, b)
<1>1. Keeps(s, r.lines, c) /\ HasLine(r.lines, c, st)
  BY UseKeeps
<1>2. PICK i \in 1 .. Len(s.lines) :
        s.lines[i].block = b /\ s.lines[i].status = "modified"
  BY DEF Modified, HasLine
<1>3. CASE b = c
  <2>1. i \in Line(s, c)
    BY <1>2, <1>3, PlaceOfBlock
  <2>2. Line(s, c) = {i}
    BY <2>1, PlaceOfBlock
  <2>3. StatusOf(s, c) = "modified"
    BY <1>2, <2>2 DEF StatusOf
  <2> QED BY <1>1, <1>3, <2>3 DEF Modified
<1>4. CASE b # c
  <2>1. Victim(s, c) = {}
    BY VictimIs
  <2>2. \E j \in 1 .. Len(r.lines) : r.lines[j] = s.lines[i]
    BY <1>1, <1>2, <1>4, <2>1 DEF Keeps
  <2> QED BY <1>2, <2>2 DEF Modified, HasLine
<1> QED BY <1>3, <1>4

LEMMA OneVictim ==
  ASSUME NEW s \in SubPartitions, SetOfLines(s), NEW c,
         NEW i \in Victim(s, c), NEW k \in Victim(s, c)
  PROVE  i = k
<1>1. Victim(s, c) # {}
  OBVIOUS
<1>2. PICK h \in 1 .. Len(s.lines) : Victim(s, c) = {h}
  BY <1>1, VictimIs
<1> QED BY <1>2

LEMMA AppendHolds ==
  ASSUME NEW S, NEW q \in Seq(S), NEW x \in S
  PROVE  \E h \in 1 .. Len(Append(q, x)) : Append(q, x)[h] = x
<1> PICK n \in Nat : n = Len(q)
  BY LengthOf
<1>1. Len(Append(q, x)) = n + 1 /\ Append(q, x)[n + 1] = x
  BY AppendOf
<1> QED BY <1>1

LEMMA VictimGone ==
  ASSUME NEW s \in SubPartitions, SetOfLines(s), NEW c \in Blocks,
         NEW i \in Victim(s, c), NEW w, w = Use(s, c, "reserved").lines,
         NEW j \in 1 .. Len(w)
  PROVE  w[j].block # s.lines[i].block
<1>1. i \in 1 .. Len(s.lines) /\ s.lines[i].block # c
  BY VictimIs
<1>2. "reserved" \in Statuses
  BY DEF Statuses
<1>3. \/ w[j].block = c
      \/ \E h \in 1 .. Len(s.lines) : h \notin Victim(s, c) /\ w[j] = s.lines[h]
  BY <1>2, UseComes
<1>4. ASSUME NEW h \in 1 .. Len(s.lines), h \notin Victim(s, c)
      PROVE  s.lines[h].block # s.lines[i].block
  BY <1>1, <1>4 DEF SetOfLines
<1> QED BY <1>1, <1>3, <1>4

LEMMA VictimWrittenBack ==
  ASSUME NEW s \in SubPartitions, SetOfLines(s), writeHit = "back", NEW c,
         NEW i \in Victim(s, c), s.lines[i].status = "modified",
         NEW b, s.lines[i].block = b, NEW v \in SubPartitions
  PROVE  \E h \in 1 .. Len(Accepted(WriteBack(v, s, c)).miss) :
           Accepted(WriteBack(v, s, c)).miss[h] = MemFetch("evict", b, 0)
<1>1. i \in Evicted(s, c)
  BY DEF Evicted
<1>2. PICK k \in 1 .. Len(s.lines) :
        /\ k \in Victim(s, c)
        /\ MemFetch("evict", s.lines[k].block, 0) \in Fetches
        /\ \A y : WriteBack(y, s, c)
                    = Send(y, MemFetch("evict", s.lines[k].block, 0))
  BY <1>1, WriteBackIs
<1>3. k = i
  BY <1>2, OneVictim
<1> PICK x : x = MemFetch("evict", b, 0)
  OBVIOUS
<1>4. WriteBack(v, s, c) = Send(v, x) /\ x \in Fetches
  BY <1>2, <1>3
<1>5. v.miss \in Seq(Fetches)
  BY DEF SubPartitions
<1>6. Accepted(Send(v, x)).miss = Append(v.miss, x)
  BY DEF Accepted, Send, SubPartitions
<1> QED BY <1>4, <1>5, <1>6, AppendHolds

\* v is s with the line of c reserved, in a request's way to it.
Reserved(s, v, c) ==
  v \in SubPartitions /\ v.lines = Use(s, c, "reserved").lines /\ v.icnt # <<>>

LEMMA VictimLeaves ==
  ASSUME NEW s \in SubPartitions, SetOfLines(s), writeHit = "back",
         NEW c \in Blocks, NEW i \in Victim(s, c),
         s.lines[i].status = "modified", NEW v, Reserved(s, v, c)
  PROVE  Leaves(Accepted(WriteBack(v, s, c)), s.lines[i].block)
<1> PICK b : b = s.lines[i].block
  OBVIOUS
<1>1. v \in SubPartitions /\ v.icnt # <<>>
  BY DEF Reserved
<1> PICK r : r = Accepted(WriteBack(v, s, c))
  OBVIOUS
<1>2. \E h \in 1 .. Len(r.miss) : r.miss[h] = MemFetch("evict", b, 0)
  BY <1>1, VictimWrittenBack
<1>3. Accepts(v, r)
  BY <1>1, AcceptFields
<1>4. r.lines = Use(s, c, "reserved").lines
  BY <1>3 DEF Accepts, Reserved
<1>5. \A j \in 1 .. Len(r.lines) : r.lines[j].block # b
  BY <1>4, VictimGone
<1> QED BY <1>2, <1>5 DEF Leaves

\* An access that needs block c: the victim of it is written back.
LEMMA MissSaves ==
  ASSUME NEW s \in SubPartitions, SetOfLines(s), writeHit = "back", NEW c \in Blocks,
         Probe(s, c) \notin {"hit", "reservation fail"},
         NEW v, Reserved(s, v, c)
  PROVE  Saves(s, Accepted(WriteBack(v, s, c)))
<1> PICK r : r = Accepted(WriteBack(v, s, c))
  OBVIOUS
<1>1. Accepts(v, r)
  BY AcceptFields DEF Reserved
<1>2. r.lines = Use(s, c, "reserved").lines
  BY <1>1 DEF Accepts, Reserved
<1>3. "reserved" \in Statuses
  BY DEF Statuses
<1>4. Keeps(s, r.lines, c)
  BY <1>2, <1>3, UseKeeps
<1>5. ASSUME NEW b \in Blocks, Modified(s, b)
      PROVE  Modified(r, b) \/ Leaves(r, b)
  <2>1. PICK i \in 1 .. Len(s.lines) :
          s.lines[i].block = b /\ s.lines[i].status = "modified"
    BY <1>5 DEF Modified, HasLine
  <2>2. b # c
    <3> SUFFICES ASSUME b = c PROVE FALSE
      OBVIOUS
    <3>1. i \in Line(s, c)
      BY <2>1, PlaceOfBlock
    <3> QED BY <2>1, <3>1 DEF Probe
  <2>3. CASE i \notin Victim(s, c)
    <3>1. \E j \in 1 .. Len(r.lines) : r.lines[j] = s.lines[i]
      BY <1>4, <2>1, <2>2, <2>3 DEF Keeps
    <3> QED BY <2>1, <3>1 DEF Modified, HasLine
  <2>4. CASE i \in Victim(s, c)
    <3>1. Leaves(r, s.lines[i].block)
      BY <2>1, <2>4, VictimLeaves
    <3> QED BY <2>1, <3>1
  <2> QED BY <2>3, <2>4
<1> QED BY <1>5 DEF Saves

LEMMA UseSame ==
  ASSUME NEW s \in SubPartitions, NEW u \in SubPartitions, u.lines = s.lines,
         NEW b, NEW st
  PROVE  Use(u, b, st).lines = Use(s, b, st).lines
<1>1. Line(u, b) = Line(s, b) /\ Replaceable(u) = Replaceable(s)
  BY DEF Line, Replaceable
<1>2. Probe(u, b) = Probe(s, b)
  BY <1>1 DEF Probe
<1>3. Victim(u, b) = Victim(s, b)
  BY <1>1, <1>2 DEF Victim
<1> PICK x, K : x = [block |-> b, status |-> st] /\ K = Line(s, b) \cup Victim(s, b)
  OBVIOUS
<1>4. Use(s, b, st).lines = Append(Without(s.lines, K), x)
  BY DEF Use, SubPartitions
<1>5. Use(u, b, st).lines = Append(Without(u.lines, K), x)
  BY <1>1, <1>3 DEF Use, SubPartitions
<1> QED BY <1>4, <1>5

LEMMA RequestReserves ==
  ASSUME NEW s \in SubPartitions, s.icnt # <<>>, NEW u, NEW m, Sends(s, u, m),
         NEW x, NEW v, Requested(u, v, x)
  PROVE  Reserved(s, v, x.block)
<1>1. u \in SubPartitions /\ u.lines = s.lines /\ u.icnt = s.icnt
  BY DEF Sends
<1>2. Use(u, x.block, "reserved").lines = Use(s, x.block, "reserved").lines
  BY <1>1, UseSame
<1>3. /\ v \in SubPartitions /\ v.icnt = u.icnt
      /\ v.lines = Use(u, x.block, "reserved").lines
  BY DEF Requested
<1> QED BY <1>1, <1>2, <1>3 DEF Reserved

LEMMA LinesSave ==
  ASSUME NEW s, NEW r, \A b : Modified(s, b) => Modified(r, b)
  PROVE  Saves(s, r)
BY DEF Saves

LEMMA ReadMissSaves ==
  ASSUME writeHit = "back", NEW s \in SubPartitions, CacheOK(s), s.icnt # <<>>,
         NEW m \in Arriving, m.kind = "read",
         Probe(s, m.block) \notin {"hit", "reservation fail"}
  PROVE  Saves(s, ReadMiss(s, m))
<1>1. m \in Waiting /\ m.block \in Blocks /\ SetOfLines(s)
  BY DEF Arriving, Waiting, Fetches, AllFetches, CacheOK
<1>2. CASE MissRoom(s, 2) /\ MshrAvail(s, m.block)
  <2> PICK v : v = SendRead(s, m)
    OBVIOUS
  <2>1. Requested(s, v, m)
    BY <1>1, RequestFields
  <2>2. Reserved(s, v, m.block)
    BY <2>1 DEF Requested, Reserved
  <2>3. ReadMiss(s, m) = Accepted(WriteBack(v, s, m.block))
    BY <1>2 DEF ReadMiss
  <2> QED BY <1>1, <2>2, <2>3, MissSaves
<1>3. CASE ~(MissRoom(s, 2) /\ MshrAvail(s, m.block))
  <2>1. ReadMiss(s, m) = s
    BY <1>3 DEF ReadMiss
  <2> QED BY <2>1 DEF Saves
<1> QED BY <1>2, <1>3

LEMMA WriteMissSaves ==
  ASSUME writeHit = "back", NEW s \in SubPartitions, CacheOK(s), s.icnt # <<>>,
         NEW m \in Arriving, Probe(s, m.block) \notin {"hit", "reservation fail"}
  PROVE  Saves(s, WriteMiss(s, m))
<1>1. m \in Fetches /\ m.block \in Blocks /\ SetOfLines(s)
  BY DEF Arriving, Fetches, AllFetches, CacheOK
<1> PICK u : u = Send(s, m)
  OBVIOUS
<1>2. Sends(s, u, m)
  BY <1>1, SendFields
<1>3. u \in SubPartitions /\ SetOfLines(u) /\ u.lines = s.lines /\ u.icnt # <<>>
  BY <1>2 DEF Sends, CacheOK
<1>4. CASE writeAllocate /\ MissRoom(s, 3) /\ MshrAvail(s, m.block)
  <2> PICK x, c : x = MemFetch("alloc", c, 0) /\ c = m.block
    OBVIOUS
  <2>1. x \in Waiting /\ x.block = c /\ c \in Blocks
    BY <1>1, AllocIs
  <2>2. SameLookup(s, u, c)
    BY <1>2, SendProbe
  <2>3. Probe(u, x.block) # "reservation fail"
    BY <2>1, <2>2 DEF SameLookup
  <2> PICK v : v = SendRead(u, x)
    OBVIOUS
  <2>4. Requested(u, v, x)
    BY <1>3, <2>1, <2>3, RequestFields
  <2>5. Reserved(s, v, x.block)
    BY <1>2, <2>4, RequestReserves
  <2>6. Probe(s, c) \notin {"hit", "reservation fail"}
    OBVIOUS
  <2>7. Saves(s, Accepted(WriteBack(v, s, c)))
    <3>1. Reserved(s, v, c)
      BY <2>1, <2>5
    <3> QED BY <1>1, <2>1, <2>6, <3>1, MissSaves
  <2>8. WriteMiss(s, m) = Accepted(WriteBack(v, s, c))
    BY <1>4 DEF WriteMiss
  <2> QED BY <2>7, <2>8
<1>5. CASE ~writeAllocate /\ MissRoom(s, 1)
  <2>1. WriteMiss(s, m) = Accepted(u)
    BY <1>5 DEF WriteMiss
  <2>2. Drained(u, Accepted(u))
    BY <1>3, AcceptedFields
  <2>3. Accepted(u).lines = s.lines
    BY <1>3, <2>2 DEF Drained
  <2>4. \A b : Modified(s, b) => Modified(WriteMiss(s, m), b)
    BY <2>1, <2>3, SameSaves
  <2> QED BY <2>4, LinesSave
<1>6. CASE \/ writeAllocate /\ ~(MissRoom(s, 3) /\ MshrAvail(s, m.block))
           \/ ~writeAllocate /\ ~MissRoom(s, 1)
  <2>1. WriteMiss(s, m) = s
    BY <1>6 DEF WriteMiss
  <2> QED BY <2>1 DEF Saves
<1> QED BY <1>4, <1>5, <1>6

LEMMA AnswerHitSaves ==
  ASSUME NEW s \in SubPartitions, CacheOK(s), s.icnt # <<>>, NEW m \in Arriving,
         Probe(s, m.block) = "hit", NEW st \in Statuses,
         st = "modified" \/ st = StatusOf(s, m.block)
  PROVE  Saves(s, Accepted(Reply(Use(s, m.block, st), m)))
<1>1. m.block \in Blocks /\ SetOfLines(s)
  BY DEF Arriving, Fetches, AllFetches, CacheOK
<1> PICK z, c : z = Use(s, c, st) /\ c = m.block
  OBVIOUS
<1>2. PICK w : Relined(s, z, w)
  BY <1>1, UseRelines
<1>3. z \in SubPartitions /\ z.icnt # <<>>
  BY <1>2 DEF Relined
<1> PICK y : y = Reply(z, m)
  OBVIOUS
<1>4. Replied(z, y, m)
  BY <1>3, ReplyIs
<1>5. y \in SubPartitions /\ y.icnt # <<>> /\ y.lines = z.lines
  BY <1>3, <1>4 DEF Replied
<1> PICK r : r = Accepted(y)
  OBVIOUS
<1>6. Drained(y, r)
  BY <1>5, AcceptedFields
<1>7. r.lines = Use(s, c, st).lines
  BY <1>5, <1>6 DEF Drained
<1>8. \A b : Modified(s, b) => Modified(r, b)
  BY <1>1, <1>7, HitSaves
<1>9. Saves(s, r)
  BY <1>8, LinesSave
<1> QED BY <1>9

LEMMA AccessSaves ==
  ASSUME writeHit = "back", NEW s, NEW d, NEW e, NEW a, Sound(s, d, e, a),
         NEW port \in BOOLEAN
  PROVE  Saves(s, Access(s, port))
<1>1. s \in SubPartitions /\ CacheOK(s)
  BY DEF Sound, CacheOK
<1>2. Saves(s, s)
  BY DEF Saves
<1>3. CASE ~Room(s.toDram) \/ s.icnt = <<>> \/ ~Room(s.reply) \/ ~port
  <2>1. Access(s, port) = s
    BY <1>3 DEF Access
  <2> QED BY <1>2, <2>1
<1>4. CASE ~(~Room(s.toDram) \/ s.icnt = <<>> \/ ~Room(s.reply) \/ ~port)
  <2> PICK m : m = Head(s.icnt)
    OBVIOUS
  <2>1. m \in Arriving /\ s.icnt # <<>>
    BY <1>1, <1>4, HeadArrives
  <2>2. CASE Probe(s, m.block) = "reservation fail"
    <3>1. Access(s, port) = s
      BY <1>4, <2>2 DEF Access
    <3> QED BY <1>2, <3>1
  <2>3. CASE Probe(s, m.block) = "hit" /\ m.kind = "read"
    <3> PICK st : st = StatusOf(s, m.block)
      OBVIOUS
    <3>1. st \in Statuses
      BY <1>1, <2>3, StatusKnown
    <3>2. Access(s, port) = Accepted(Reply(Use(s, m.block, st), m))
      BY <1>4, <2>3 DEF Access
    <3> QED BY <1>1, <2>1, <2>3, <3>1, <3>2, AnswerHitSaves
  <2>4. CASE Probe(s, m.block) = "hit" /\ m.kind # "read"
    <3>1. Access(s, port) = Accepted(Reply(Use(s, m.block, "modified"), m))
      BY <1>4, <2>4 DEF Access, OnWriteHit
    <3>2. "modified" \in Statuses
      BY DEF Statuses
    <3> QED BY <1>1, <2>1, <2>4, <3>1, <3>2, AnswerHitSaves
  <2>5. CASE Probe(s, m.block) \notin {"hit", "reservation fail"} /\ m.kind = "read"
    <3>1. Access(s, port) = ReadMiss(s, m)
      BY <1>4, <2>5 DEF Access
    <3> QED BY <1>1, <2>1, <2>5, <3>1, ReadMissSaves
  <2>6. CASE Probe(s, m.block) \notin {"hit", "reservation fail"} /\ m.kind # "read"
    <3>1. Access(s, port) = WriteMiss(s, m)
      BY <1>4, <2>6 DEF Access
    <3> QED BY <1>1, <2>1, <2>6, <3>1, WriteMissSaves
  <2> QED BY <2>2, <2>3, <2>4, <2>5, <2>6
<1> QED BY <1>3, <1>4

LEMMA CycleSaves ==
  ASSUME writeHit = "back", Config, NEW s, NEW d, NEW e, NEW a \in 0 .. MaxRequests,
         Sound(s, d, e, a), NEW fill \in BOOLEAN, NEW data \in BOOLEAN
  PROVE  Saves(s, Access(MissToDram(FromDram(Answer(s), fill)), data))
<1> PICK p : p = Answer(s)
  OBVIOUS
<1>1. Sound(p, d, e, a)
  BY AnswerSound
<1> PICK q : q = FromDram(p, fill)
  OBVIOUS
<1>2. Sound(q, d, e, a)
  BY <1>1, FromDramSound
<1> PICK t : t = MissToDram(q)
  OBVIOUS
<1>3. Sound(t, d, e, a) /\ q \in SubPartitions
  BY <1>2, MissToDramSound DEF Sound
<1>4. ASSUME NEW b \in Blocks, Modified(s, b) PROVE Modified(t, b)
  <2>1. Modified(p, b)
    BY <1>4, AnswerSaves
  <2>2. Modified(q, b)
    BY <1>1, <2>1, FromDramSaves
  <2> QED BY <1>3, <2>2, MissToDramSaves
<1>5. Saves(t, Access(t, data))
  BY <1>3, AccessSaves
<1> QED BY <1>4, <1>5 DEF Saves

\* Of the actions, only a cycle of the cache changes lines.
LEMMA StepSaves ==
  ASSUME IInv, [Next]_vars, writeHit = "back"
  PROVE  Saves(sp, sp')
<1>1. Config /\ Sound(sp, dram, ended, asked) /\ sp \in SubPartitions
      /\ asked \in 0 .. MaxRequests
  BY DEF IInv, Config, Sound
<1>2. ASSUME sp'.lines = sp.lines PROVE Saves(sp, sp')
  BY <1>2, SameSaves, LinesSave
<1>3. CASE Arrive
  <2>1. sp'.lines = sp.lines
    BY <1>1, <1>3 DEF Arrive, SubPartitions
  <2> QED BY <1>2, <2>1
<1>4. CASE CacheCycle
  <2>1. PICK fill \in BOOLEAN, data \in BOOLEAN : Stages(fill, data)
    BY <1>4 DEF CacheCycle
  <2>2. sp' = Access(MissToDram(FromDram(Answer(sp), fill)), data)
    BY <2>1 DEF Stages
  <2> QED BY <1>1, <2>2, CycleSaves
<1>5. CASE DramTake
  <2>1. sp'.lines = sp.lines
    BY <1>1, <1>5 DEF DramTake, SubPartitions
  <2> QED BY <1>2, <2>1
<1>6. CASE \E m \in dram : DramDone(m)
  <2>1. sp'.lines = sp.lines
    BY <1>1, <1>6 DEF DramDone, SubPartitions
  <2> QED BY <1>2, <2>1
<1>7. CASE Pop
  <2>1. sp'.lines = sp.lines
    BY <1>1, <1>7 DEF Pop, SubPartitions
  <2> QED BY <1>2, <2>1
<1>8. CASE UNCHANGED vars
  <2>1. sp'.lines = sp.lines
    BY <1>8 DEF vars
  <2> QED BY <1>2, <2>1
<1> QED BY <1>3, <1>4, <1>5, <1>6, <1>7, <1>8 DEF Next

LEMMA ModifiedIs ==
  ASSUME NEW s \in SubPartitions, NEW b
  PROVE  /\ Modified(s, b) <=> \E i \in Line(s, b) : s.lines[i].status = "modified"
         /\ Line(s, b) = {} <=> \A i \in 1 .. Len(s.lines) : s.lines[i].block # b
         /\ ToSet(s.miss) = {s.miss[i] : i \in 1 .. Len(s.miss)}
<1> PICK q \in Seq(CacheLines) : q = s.lines
  BY DEF SubPartitions
<1>1. DOMAIN q = 1 .. Len(q)
  OBVIOUS
<1>2. Line(s, b) = {i \in 1 .. Len(q) : q[i].block = b}
  BY <1>1 DEF Line
<1>3. ToSet(s.miss) = {s.miss[i] : i \in 1 .. Len(s.miss)}
  BY ToSetIs DEF SubPartitions
<1> QED BY <1>2, <1>3 DEF Modified, HasLine

LEMMA NotDropped ==
  ASSUME IInv, IInv', [Next]_vars, writeHit = "back", NEW b \in Blocks,
         \E i \in Line(sp, b) : sp.lines[i].status = "modified"
  PROVE  \/ \E i \in Line(sp', b) : sp'.lines[i].status = "modified"
         \/ /\ Line(sp', b) = {}
            /\ MemFetch("evict", b, 0) \in ToSet(sp'.miss)
<1>1. sp \in SubPartitions /\ sp' \in SubPartitions
  BY DEF IInv, Sound
<1> PICK r : r = sp'
  OBVIOUS
<1>2. Saves(sp, r)
  BY StepSaves
<1>3. Modified(sp, b)
  BY <1>1, ModifiedIs
<1>4. Modified(r, b) \/ Leaves(r, b)
  BY <1>2, <1>3 DEF Saves
<1>5. r \in SubPartitions
  BY <1>1
<1>6. /\ Modified(r, b) <=> \E i \in Line(r, b) : r.lines[i].status = "modified"
      /\ Line(r, b) = {} <=> \A i \in 1 .. Len(r.lines) : r.lines[i].block # b
      /\ ToSet(r.miss) = {r.miss[i] : i \in 1 .. Len(r.miss)}
  BY <1>5, ModifiedIs
<1> QED BY <1>4, <1>6 DEF Leaves

\* tag_array::access() evicts a modified line only with its write-back in the
\* miss queue in the same call: wb and evicted are never lost between them.
THEOREM DirtyKept == Spec => DirtyLinesWrittenBack
<1>1. /\ IInv /\ IInv' /\ [Next]_vars
      => [writeHit = "back" =>
            \A b \in Blocks :
              (\E i \in Line(sp, b) : sp.lines[i].status = "modified")
                => \/ \E i \in Line(sp', b) : sp'.lines[i].status = "modified"
                   \/ /\ Line(sp', b) = {}
                      /\ MemFetch("evict", b, 0) \in ToSet(sp'.miss)]_vars
  BY NotDropped
<1> QED BY <1>1, Inductive, PTL DEF Spec, DirtyLinesWrittenBack
=============================================================================
