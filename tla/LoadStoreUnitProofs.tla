------------------------- MODULE LoadStoreUnitProofs -------------------------
(***************************************************************************)
(* Proofs about LoadStoreUnit, for any number of cores, warps, registers,  *)
(* blocks and instructions.  A cycle of the unit is a sequence of stages,  *)
(* each a function of the record of one core: Sound is what every stage    *)
(* keeps of that record, and Between what holds besides when a cycle has   *)
(* ended.  The counts are followed through the set of the accesses that    *)
(* are outstanding, of which every stage adds or removes one at most.      *)
(***************************************************************************)
EXTENDS LoadStoreUnit, FiniteSetTheorems, TLAPS

\* An instruction of a program, or what is left of it.
Legal(d) ==
  /\ d \in Instructions
  /\ d.store => d.path \notin {"const", "tex"}
  /\ d.path = "shared" => d.blocks = <<>>
  /\ IsInjective(d.blocks)

SharedLoad(m) == m \in Instructions /\ m.path = "shared" /\ ~m.store

Collections == UNION {[S -> Nat \ {0}] : S \in SUBSET Instructions}
Pendings == UNION {[S -> Int] : S \in SUBSET Keys}
Lines == {"const", "data"} \X Blocks
TexEntries == [access : Accesses, here : BOOLEAN]

CoreRecords ==
  [collecting : Collections,
   dispatch : Instructions \cup {None},
   pipe : [1 .. 3 -> Instructions \cup {None}],
   fifo : Seq(Accesses \cup Acks),
   tex : Seq(TexEntries),
   waiting : SUBSET Accesses,
   ready : SUBSET Accesses,
   lost : SUBSET Lines,
   nextGlobal : Accesses \cup {None},
   nextWb : Accesses \cup Instructions \cup {None},
   arb : 0 .. 4,
   pending : Pendings,
   reserved : SUBSET Keys,
   stores : [Warps -> Int],
   inPipe : [Warps -> Int],
   reads : SUBSET Accesses,
   writes : [Warps -> Nat]]

\* What may be in a place of the unit.
Kinds(u) ==
  /\ IsFiniteSet(Copies(u.collecting)) /\ \A d \in DOMAIN u.collecting : Legal(d)
  /\ u.dispatch # None => Legal(u.dispatch)
  /\ \A i \in 1 .. 3 : u.pipe[i] # None => SharedLoad(u.pipe[i])
  /\ \A a \in u.waiting \cup u.ready : a.path \in Cached
  /\ \A i \in DOMAIN u.tex : u.tex[i].access.path = "tex"
  /\ u.nextGlobal # None => u.nextGlobal.path = "bypass"
  /\ u.nextWb # None => u.nextWb \in Accesses \/ SharedLoad(u.nextWb)

\* Requests in the network and the memory, and answers.
Requests(u) == u.reads \cup {m \in ToSet(u.fifo) : m.path # "ack"}

\* Every access is in one place.  A request belongs to an access in an MSHR, in
\* the fragment FIFO or to none, and a block is requested once.
Places(u) ==
  /\ IsFiniteSet(Outstanding(u))
  /\ u.waiting \cap u.ready = {}
  /\ \A m \in Requests(u) :
       /\ m.path \in Cached => m \in u.waiting
       /\ m.path = "tex" => \E i \in DOMAIN u.tex : u.tex[i].access = m /\ ~u.tex[i].here
       /\ m # u.nextGlobal /\ m # u.nextWb
  /\ \A m, n \in Requests(u) :
       m.path \in Cached /\ n.path \in Cached /\ SameCache(m.path, n.path)
         /\ m.block = n.block => m = n
  /\ \A i, j \in DOMAIN u.fifo : u.fifo[i].path # "ack" /\ u.fifo[i] = u.fifo[j] => i = j
  /\ \A i \in DOMAIN u.fifo : u.fifo[i] \notin u.reads
  /\ \A i, j \in DOMAIN u.tex : u.tex[i].access = u.tex[j].access => i = j
  /\ u.nextWb # None =>
       /\ u.nextWb # u.nextGlobal /\ u.nextWb \notin u.waiting \cup u.ready
       /\ \A i \in DOMAIN u.tex : u.tex[i].access # u.nextWb

\* m_pending_writes, the accesses that are outstanding and m_dispatch_reg.
Loads(d, k) == d # None /\ Answered(d) /\ Key(d) = k

Away(out, k) == {a \in out : Key(a) = k}

Matches(pending, out, d) == \A k \in Keys :
  /\ k \in DOMAIN pending <=> Loads(d, k) \/ Away(out, k) # {}
  /\ k \in DOMAIN pending =>
       pending[k] = Cardinality(Away(out, k)) + (IF Loads(d, k) THEN Len(d.blocks) ELSE 0)

\* No access of a block that is still to be accessed is outstanding.
Ahead(out, d) ==
  d # None /\ Answered(d) => \A a \in out : Key(a) = Key(d) => a.block \notin ToSet(d.blocks)

\* A register is reserved by one load, which is in one place.
HoldsShared(m, k) == IF m # None /\ m.path = "shared" /\ ~m.store /\ Key(m) = k THEN 1 ELSE 0
LoadsOf(bag, k) == {x \in Copies(bag) : ~x[1].store /\ Key(x[1]) = k}
Belongs(k, S) == IF k \in S THEN 1 ELSE 0

Held(u) == \A k \in Keys :
  HoldsShared(u.nextWb, k) + HoldsShared(u.pipe[1], k) + HoldsShared(u.pipe[2], k)
    + HoldsShared(u.pipe[3], k) + HoldsShared(u.dispatch, k)
    + Belongs(k, DOMAIN u.pending) + Cardinality(LoadsOf(u.collecting, k))
    = Belongs(k, u.reserved)

\* Stores and instructions are counted.
StoresCounted(u) == \A w \in Warps :
  u.stores[w] = u.writes[w] + Cardinality(AcksOf(u.fifo, w))

PipeCounted(u) == \A w \in Warps :
  u.inPipe[w] = Cardinality(CopiesOf(u.collecting, w)) + Named(u.dispatch, w)
                + Named(u.pipe[1], w) + Named(u.pipe[2], w) + Named(u.pipe[3], w)

Sound(u) ==
  /\ u \in CoreRecords
  /\ Kinds(u)
  /\ Places(u)
  /\ Matches(u.pending, Outstanding(u), u.dispatch)
  /\ Ahead(Outstanding(u), u.dispatch)
  /\ Held(u)
  /\ StoresCounted(u)
  /\ PipeCounted(u)

\* A load without accesses has none outstanding: it leaves in this cycle.
Between(u) ==
  u.dispatch # None /\ Answered(u.dispatch) /\ u.dispatch.blocks = <<>> =>
    \A a \in Outstanding(u) : Key(a) # Key(u.dispatch)

\* Nothing of the warp is left.
Drained(u, w) ==
  u.stores[w] = 0 /\ u.inPipe[w] = 0 /\ \A r \in Regs : <<w, r>> \notin u.reserved

IInv ==
  /\ compression \in Compressions /\ mode \in BOOLEAN /\ issued \in Nat
  /\ phase \in [Cores -> [Warps -> {"idle", "running", "done"}]]
  /\ core \in [Cores -> CoreRecords]
  /\ \A c \in Cores : Sound(core[c]) /\ Between(core[c])
  /\ \A c \in Cores : \A w \in Warps : phase[c][w] = "idle" => Drained(core[c], w)

-----------------------------------------------------------------------------
(* Instructions, accesses and the sets they are counted in.                *)

LEMMA NoneIsNone == None \notin Instructions /\ None \notin Accesses
BY LoadStoreAssumption

LEMMA LineOf ==
  ASSUME NEW a \in Accesses
  PROVE  Line(a) \in Lines
<1>1. a.block \in Blocks
  BY DEF Accesses
<1> QED BY <1>1 DEF Line, Lines

LEMMA AccessAnswered ==
  ASSUME NEW a \in Accesses
  PROVE  Answered(a) /\ Key(a) \in Keys /\ a # None /\ a.path # "shared" /\ a.path # "ack"
<1>1. "store" \notin DOMAIN a
  BY DEF Accesses
<1>2. a.path \in Paths \ {"shared"} /\ a.warp \in Warps /\ a.reg \in Regs
  BY DEF Accesses
<1> QED BY <1>1, <1>2, NoneIsNone DEF Answered, Key, Keys, Paths, Cached

LEMMA InstructionAnswered ==
  ASSUME NEW d \in Instructions
  PROVE  /\ Answered(d) <=> d.path # "shared" /\ ~d.store
         /\ Key(d) \in Keys /\ d # None /\ d.path # "ack"
         /\ d.blocks \in Seq(Blocks) /\ d.warp \in Warps
<1>1. "store" \in DOMAIN d
  BY DEF Instructions
<1>2. d.path \in Paths /\ d.warp \in Warps /\ d.reg \in Regs /\ d.blocks \in Seq(Blocks)
  BY DEF Instructions
<1> QED BY <1>1, <1>2, NoneIsNone DEF Answered, Key, Keys, Paths, Cached

LEMMA AwayFinite ==
  ASSUME NEW out, IsFiniteSet(out), NEW k
  PROVE  /\ IsFiniteSet(Away(out, k)) /\ Cardinality(Away(out, k)) \in Nat
         /\ Cardinality(Away(out, k)) = 0 <=> Away(out, k) = {}
<1>1. Away(out, k) \in SUBSET out
  BY DEF Away
<1>2. IsFiniteSet(Away(out, k))
  BY <1>1, FS_Subset
<1> QED BY <1>2, FS_CardinalityType, FS_EmptySet

LEMMA AwayLess ==
  ASSUME NEW out, IsFiniteSet(out), NEW x \in out, NEW k
  PROVE  Cardinality(Away(out \ {x}, k))
           = Cardinality(Away(out, k)) - (IF Key(x) = k THEN 1 ELSE 0)
<1>1. CASE Key(x) = k
  <2>1. x \in Away(out, k) /\ Away(out \ {x}, k) = Away(out, k) \ {x}
    BY <1>1 DEF Away
  <2> QED BY <1>1, <2>1, AwayFinite, FS_RemoveElement
<1>2. CASE Key(x) # k
  <2>1. Away(out \ {x}, k) = Away(out, k)
    BY <1>2 DEF Away
  <2> QED BY <1>2, <2>1, AwayFinite
<1> QED BY <1>1, <1>2

LEMMA AwayMore ==
  ASSUME NEW out, IsFiniteSet(out), NEW x, x \notin out, NEW k
  PROVE  Cardinality(Away(out \cup {x}, k))
           = Cardinality(Away(out, k)) + (IF Key(x) = k THEN 1 ELSE 0)
<1>1. CASE Key(x) = k
  <2>1. x \notin Away(out, k) /\ Away(out \cup {x}, k) = Away(out, k) \cup {x}
    BY <1>1 DEF Away
  <2>2. Cardinality(Away(out, k) \cup {x}) = Cardinality(Away(out, k)) + 1
    BY <2>1, AwayFinite, FS_AddElement
  <2> QED BY <1>1, <2>1, <2>2
<1>2. CASE Key(x) # k
  <2>1. Away(out \cup {x}, k) = Away(out, k)
    BY <1>2 DEF Away
  <2> QED BY <1>2, <2>1, AwayFinite
<1> QED BY <1>1, <1>2

\* What m_pending_writes says of one register.
MatchesAt(pending, out, d, k) ==
  /\ k \in DOMAIN pending <=> Loads(d, k) \/ Away(out, k) # {}
  /\ k \in DOMAIN pending =>
       pending[k] = Cardinality(Away(out, k)) + (IF Loads(d, k) THEN Len(d.blocks) ELSE 0)

LEMMA MatchesEach ==
  ASSUME NEW P, NEW out, NEW d
  PROVE  Matches(P, out, d) <=> \A k \in Keys : MatchesAt(P, out, d, k)
BY DEF Matches, MatchesAt

\* An access is written back.
LEMMA MatchesWritten ==
  ASSUME NEW P, P \in [DOMAIN P -> Int], NEW out, IsFiniteSet(out), NEW d,
         d = None \/ d \in Instructions, Matches(P, out, d), NEW x \in out, NEW k \in Keys,
         k = Key(x), Loads(d, k) => d.blocks # <<>>, NEW Q,
         Q = IF P[k] = 1 THEN WithoutKey(P, k) ELSE [P EXCEPT ![k] = @ - 1]
  PROVE  k \in DOMAIN P /\ Matches(Q, out \ {x}, d)
<1>1. k \in DOMAIN P /\ P[k] = Cardinality(Away(out, k))
                                 + (IF Loads(d, k) THEN Len(d.blocks) ELSE 0)
  BY DEF Matches, Away
<1>2. Cardinality(Away(out \ {x}, k)) = Cardinality(Away(out, k)) - 1
  BY AwayLess
<1>3. IsFiniteSet(out \ {x})
  BY FS_Subset
<1>4. /\ Cardinality(Away(out \ {x}, k)) \in Nat
      /\ Cardinality(Away(out \ {x}, k)) = 0 <=> Away(out \ {x}, k) = {}
      /\ Cardinality(Away(out, k)) \in Nat
  BY <1>3, AwayFinite
<1>5. Loads(d, k) => Len(d.blocks) \in Nat /\ Len(d.blocks) > 0
  BY InstructionAnswered DEF Loads
<1>6. ASSUME NEW j \in Keys, j # k PROVE MatchesAt(Q, out \ {x}, d, j)
  <2>1. MatchesAt(P, out, d, j)
    BY MatchesEach
  <2>2. Away(out \ {x}, j) = Away(out, j)
    BY <1>6 DEF Away
  <2>3. j \in DOMAIN Q <=> j \in DOMAIN P
    BY <1>6 DEF WithoutKey
  <2>4. j \in DOMAIN P => Q[j] = P[j]
    BY <1>6 DEF WithoutKey
  <2> QED BY <2>1, <2>2, <2>3, <2>4 DEF MatchesAt
<1>7. MatchesAt(Q, out \ {x}, d, k)
  <2>1. CASE P[k] = 1
    <3>1. k \notin DOMAIN Q
      BY <2>1 DEF WithoutKey
    <3>2. ~ Loads(d, k) /\ Cardinality(Away(out \ {x}, k)) = 0
      BY <1>1, <1>2, <1>4, <1>5, <2>1
    <3> QED BY <1>4, <3>1, <3>2 DEF MatchesAt
  <2>2. CASE P[k] # 1
    <3>1. k \in DOMAIN Q /\ Q[k] = P[k] - 1
      BY <1>1, <2>2
    <3>2. ASSUME ~ Loads(d, k) PROVE Away(out \ {x}, k) # {}
      <4>1. Cardinality(Away(out, k)) # 1
        BY <1>1, <1>4, <2>2, <3>2
      <4>2. Cardinality(Away(out \ {x}, k)) # 0
        BY <1>2, <1>4, <4>1
      <4> QED BY <1>4, <4>2
    <3>3. Q[k] = Cardinality(Away(out \ {x}, k)) + (IF Loads(d, k) THEN Len(d.blocks) ELSE 0)
      BY <1>1, <1>2, <1>4, <1>5, <3>1
    <3> QED BY <3>1, <3>2, <3>3 DEF MatchesAt
  <2> QED BY <2>1, <2>2
<1> QED BY <1>1, <1>6, <1>7, MatchesEach

\* The back of the queue of an instruction is taken off.
LEMMA FrontBlocks ==
  ASSUME NEW d, Legal(d), d.blocks # <<>>
  PROVE  /\ Last(d.blocks) \in Blocks
         /\ Front(d.blocks) \in Seq(Blocks) /\ Len(Front(d.blocks)) = Len(d.blocks) - 1
         /\ IsInjective(Front(d.blocks))
         /\ Last(d.blocks) \in ToSet(d.blocks) /\ Last(d.blocks) \notin ToSet(Front(d.blocks))
         /\ ToSet(Front(d.blocks)) \subseteq ToSet(d.blocks)
<1>1. PICK s \in Seq(Blocks) : s = d.blocks
  BY DEF Legal, Instructions
<1>2. PICK n \in Nat : n = Len(s) /\ n > 0
  BY <1>1
<1>3. s \in [1 .. n -> Blocks]
  BY <1>2
<1>4. PICK f : f = Front(s)
  OBVIOUS
<1>5. f = [i \in 1 .. n - 1 |-> s[i]]
  BY <1>2, <1>4 DEF Front
<1>6. f \in Seq(Blocks)
  <2>1. n - 1 \in Nat
    BY <1>2
  <2>2. f \in [1 .. n - 1 -> Blocks]
    BY <1>2, <1>3, <1>5
  <2> QED BY <2>1, <2>2 DEF Seq
<1>7. Len(f) = n - 1
  BY <1>2, <1>5, <1>6
<1>8. Last(s) = s[n] /\ n \in 1 .. n
  BY <1>2 DEF Last
<1>9. \A i, j \in 1 .. n : s[i] = s[j] => i = j
  BY <1>1, <1>2 DEF Legal, IsInjective
<1>10. IsInjective(f)
  BY <1>5, <1>9 DEF IsInjective
<1>11. ToSet(s) = {s[i] : i \in 1 .. n} /\ ToSet(f) = {f[i] : i \in 1 .. n - 1}
  BY <1>2, <1>3, <1>5 DEF ToSet
<1> QED BY <1>1, <1>2, <1>3, <1>4, <1>5, <1>6, <1>7, <1>8, <1>9, <1>10, <1>11

\* Two states of one instruction.
Same(d, e) ==
  /\ d \in Instructions /\ e \in Instructions
  /\ e.warp = d.warp /\ e.reg = d.reg /\ e.path = d.path /\ e.store = d.store

LEMMA SameIs ==
  ASSUME NEW d, NEW e, Same(d, e), NEW k
  PROVE  /\ Key(e) = Key(d) /\ (Answered(e) <=> Answered(d))
         /\ Loads(e, k) <=> Loads(d, k)
         /\ HoldsShared(e, k) = HoldsShared(d, k)
         /\ Named(e, k) = Named(d, k)
<1>1. d # None /\ e # None
  BY NoneIsNone DEF Same
<1>2. Key(e) = Key(d)
  BY DEF Same, Key
<1>3. Answered(e) <=> Answered(d)
  BY InstructionAnswered DEF Same
<1>4. Loads(e, k) <=> Loads(d, k)
  BY <1>1, <1>2, <1>3 DEF Loads
<1>5. HoldsShared(e, k) = HoldsShared(d, k)
  BY <1>1, <1>2 DEF Same, HoldsShared
<1>6. Named(e, k) = Named(d, k)
  BY <1>1 DEF Same, Named
<1> QED BY <1>2, <1>3, <1>4, <1>5, <1>6

\* The present access hits.
LEMMA MatchesHit ==
  ASSUME NEW P, P \in [DOMAIN P -> Int], NEW out, IsFiniteSet(out), NEW d, Legal(d),
         Answered(d), d.blocks # <<>>, Matches(P, out, d), NEW e, Same(d, e),
         e.blocks = Front(d.blocks), NEW k, k = Key(d),
         NEW Q, Q = [P EXCEPT ![k] = @ - 1]
  PROVE  k \in DOMAIN P /\ Matches(Q, out, e)
<1>1. d \in Instructions /\ d # None /\ k \in Keys
  BY InstructionAnswered DEF Legal
<1>2. Loads(d, k)
  BY <1>1 DEF Loads
<1>3. k \in DOMAIN P /\ P[k] = Cardinality(Away(out, k)) + Len(d.blocks)
  BY <1>1, <1>2 DEF Matches
<1>4. Len(e.blocks) = Len(d.blocks) - 1 /\ Len(d.blocks) \in Nat
  <2>1. Len(d.blocks) \in Nat
    BY <1>1, InstructionAnswered
  <2> QED BY <2>1, FrontBlocks
<1>5. \A j : Loads(e, j) <=> Loads(d, j)
  BY SameIs
<1>6. ASSUME NEW j \in Keys PROVE MatchesAt(Q, out, e, j)
  <2>1. MatchesAt(P, out, d, j)
    BY MatchesEach
  <2>2. CASE j = k
    <3>1. Q[k] = P[k] - 1 /\ k \in DOMAIN Q
      BY <1>3
    <3>2. Q[k] = Cardinality(Away(out, k)) + Len(e.blocks)
      BY <1>3, <1>4, <3>1, AwayFinite
    <3> QED BY <1>2, <1>5, <2>2, <3>1, <3>2 DEF MatchesAt
  <2>3. CASE j # k
    <3>1. (j \in DOMAIN Q <=> j \in DOMAIN P) /\ (j \in DOMAIN P => Q[j] = P[j])
      BY <2>3
    <3>2. ~ Loads(d, j)
      BY <2>3 DEF Loads
    <3> QED BY <1>5, <2>1, <3>1, <3>2 DEF MatchesAt
  <2> QED BY <2>2, <2>3
<1> QED BY <1>3, <1>6, MatchesEach

\* The present access is sent, or joins others.
LEMMA MatchesSent ==
  ASSUME NEW P, NEW out, IsFiniteSet(out), NEW d, Legal(d),
         Answered(d), d.blocks # <<>>, Matches(P, out, d), NEW e, Same(d, e),
         e.blocks = Front(d.blocks), NEW a, a \notin out, Key(a) = Key(d)
  PROVE  Matches(P, out \cup {a}, e)
<1>1. d \in Instructions /\ d # None
  BY InstructionAnswered DEF Legal
<1>2. Len(e.blocks) = Len(d.blocks) - 1 /\ Len(d.blocks) \in Nat
  <2>1. Len(d.blocks) \in Nat
    BY <1>1, InstructionAnswered
  <2> QED BY <2>1, FrontBlocks
<1>3. ASSUME NEW j \in Keys PROVE MatchesAt(P, out \cup {a}, e, j)
  <2>1. MatchesAt(P, out, d, j) /\ (Loads(e, j) <=> Loads(d, j))
    BY MatchesEach, SameIs
  <2>2. CASE j = Key(d)
    <3>1. Loads(d, j)
      BY <1>1, <2>2 DEF Loads
    <3>2. Cardinality(Away(out \cup {a}, j)) = Cardinality(Away(out, j)) + 1
      BY <2>2, AwayMore
    <3>3. Cardinality(Away(out, j)) \in Nat
      BY AwayFinite
    <3>4. P[j] = Cardinality(Away(out, j)) + Len(d.blocks)
      BY <2>1, <3>1 DEF MatchesAt
    <3>5. P[j] = Cardinality(Away(out \cup {a}, j)) + Len(e.blocks)
      BY <1>2, <3>2, <3>3, <3>4
    <3> QED BY <2>1, <3>1, <3>5 DEF MatchesAt
  <2>3. CASE j # Key(d)
    <3>1. ~ Loads(d, j)
      BY <2>3 DEF Loads
    <3>2. Away(out \cup {a}, j) = Away(out, j)
      BY <2>3 DEF Away
    <3> QED BY <2>1, <3>1, <3>2 DEF MatchesAt
  <2> QED BY <2>2, <2>3
<1> QED BY <1>3, MatchesEach

\* Instructions that no memory answers do not count.
LEMMA MatchesOther ==
  ASSUME NEW P, NEW out, NEW d, NEW e, Matches(P, out, d),
         d = None \/ ~ Answered(d), e = None \/ ~ Answered(e)
  PROVE  Matches(P, out, e)
<1>1. \A k : ~ Loads(d, k) /\ ~ Loads(e, k)
  BY DEF Loads
<1> QED BY <1>1 DEF Matches

\* A load without further accesses leaves.
LEMMA MatchesLeave ==
  ASSUME NEW P, NEW out, IsFiniteSet(out), NEW d, d \in Instructions,
         Answered(d), d.blocks = <<>>, Matches(P, out, d), NEW k, k = Key(d)
  PROVE  /\ k \in DOMAIN P
         /\ P[k] > 0 => Matches(P, out, None)
         /\ ~ P[k] > 0 => Matches(WithoutKey(P, k), out, None)
<1>1. d # None /\ k \in Keys /\ Loads(d, k)
  BY InstructionAnswered DEF Loads
<1>2. k \in DOMAIN P /\ P[k] = Cardinality(Away(out, k)) + 0
  <2>1. Len(d.blocks) = 0
    OBVIOUS
  <2> QED BY <1>1, <2>1 DEF Matches
<1>3. Cardinality(Away(out, k)) \in Nat /\ (Cardinality(Away(out, k)) = 0 <=> Away(out, k) = {})
  BY AwayFinite
<1>4. \A j : ~ Loads(None, j)
  BY DEF Loads
<1>5. \A j : j # k => ~ Loads(d, j)
  BY DEF Loads
<1>6. ASSUME P[k] > 0 PROVE Matches(P, out, None)
  <2>1. Away(out, k) # {} /\ P[k] = Cardinality(Away(out, k))
    BY <1>2, <1>3, <1>6
  <2>2. ASSUME NEW j \in Keys PROVE MatchesAt(P, out, None, j)
    <3>1. MatchesAt(P, out, d, j)
      BY MatchesEach
    <3>2. CASE j = k
      BY <1>2, <1>3, <1>4, <2>1, <3>2 DEF MatchesAt
    <3>3. CASE j # k
      BY <1>4, <1>5, <3>1, <3>3 DEF MatchesAt
    <3> QED BY <3>2, <3>3
  <2> QED BY <2>2, MatchesEach
<1>7. ASSUME ~ P[k] > 0 PROVE Matches(WithoutKey(P, k), out, None)
  <2>1. Away(out, k) = {}
    BY <1>2, <1>3, <1>7
  <2>2. PICK Q : Q = WithoutKey(P, k)
    OBVIOUS
  <2>3. k \notin DOMAIN Q /\ \A j : j # k => (j \in DOMAIN Q <=> j \in DOMAIN P)
    BY <2>2 DEF WithoutKey
  <2>4. \A j \in DOMAIN Q : Q[j] = P[j]
    BY <2>2 DEF WithoutKey
  <2>5. ASSUME NEW j \in Keys PROVE MatchesAt(Q, out, None, j)
    <3>1. MatchesAt(P, out, d, j)
      BY MatchesEach
    <3>2. CASE j = k
      BY <1>4, <2>1, <2>3, <3>2 DEF MatchesAt
    <3>3. CASE j # k
      BY <1>4, <1>5, <2>3, <2>4, <3>1, <3>3 DEF MatchesAt
    <3> QED BY <3>2, <3>3
  <2> QED BY <2>2, <2>5, MatchesEach
<1> QED BY <1>2, <1>6, <1>7

\* A load comes to the unit.
LEMMA MatchesIssue ==
  ASSUME NEW P, NEW out, IsFiniteSet(out), NEW d \in Instructions, Answered(d),
         Matches(P, out, None), NEW k, k = Key(d), k \notin DOMAIN P, NEW Q,
         Q = [j \in DOMAIN P \cup {k} |->
                (IF j \in DOMAIN P THEN P[j] ELSE 0) + (IF j = k THEN Len(d.blocks) ELSE 0)],
         P \in [DOMAIN P -> Int]
  PROVE  Away(out, k) = {} /\ Matches(Q, out, d)
<1>1. d # None /\ k \in Keys /\ Loads(d, k) /\ Len(d.blocks) \in Nat
  BY InstructionAnswered DEF Loads
<1>2. \A j : ~ Loads(None, j)
  BY DEF Loads
<1>3. Away(out, k) = {}
  BY <1>1 DEF Matches
<1>4. Cardinality(Away(out, k)) = 0
  BY <1>3, FS_EmptySet
<1>5. k \in DOMAIN Q /\ \A j : j # k => (j \in DOMAIN Q <=> j \in DOMAIN P)
  OBVIOUS
<1>6. Q[k] = Len(d.blocks) /\ \A j \in DOMAIN P : j # k => Q[j] = P[j]
  BY <1>1
<1>7. ASSUME NEW j \in Keys PROVE MatchesAt(Q, out, d, j)
  <2>1. MatchesAt(P, out, None, j)
    BY MatchesEach
  <2>2. CASE j = k
    <3>1. Q[k] = Cardinality(Away(out, k)) + Len(d.blocks)
      BY <1>1, <1>4, <1>6
    <3> QED BY <1>1, <1>5, <2>2, <3>1 DEF MatchesAt
  <2>3. CASE j # k
    <3>1. ~ Loads(d, j)
      BY <2>3 DEF Loads
    <3> QED BY <1>2, <1>5, <1>6, <2>1, <2>3, <3>1 DEF MatchesAt
  <2> QED BY <2>2, <2>3
<1> QED BY <1>3, <1>7, MatchesEach

-----------------------------------------------------------------------------
(* The record of a core.                                                   *)

LEMMA PendingsAre ==
  ASSUME NEW P
  PROVE  P \in Pendings <=> P \in [DOMAIN P -> Int] /\ DOMAIN P \subseteq Keys
<1>1. ASSUME P \in Pendings PROVE P \in [DOMAIN P -> Int] /\ DOMAIN P \subseteq Keys
  BY <1>1 DEF Pendings
<1>2. ASSUME P \in [DOMAIN P -> Int], DOMAIN P \subseteq Keys PROVE P \in Pendings
  BY <1>2 DEF Pendings
<1> QED BY <1>1, <1>2

LEMMA CollectionsAre ==
  ASSUME NEW B
  PROVE  B \in Collections <=> B \in [DOMAIN B -> Nat \ {0}] /\ DOMAIN B \subseteq Instructions
<1>1. ASSUME B \in Collections PROVE B \in [DOMAIN B -> Nat \ {0}] /\ DOMAIN B \subseteq Instructions
  BY <1>1 DEF Collections
<1>2. ASSUME B \in [DOMAIN B -> Nat \ {0}], DOMAIN B \subseteq Instructions PROVE B \in Collections
  BY <1>2 DEF Collections
<1> QED BY <1>1, <1>2

LEMMA CoreFields ==
  ASSUME NEW u \in CoreRecords
  PROVE  /\ u.collecting \in Collections /\ u.dispatch \in Instructions \cup {None}
         /\ u.pipe \in [1 .. 3 -> Instructions \cup {None}]
         /\ u.fifo \in Seq(Accesses \cup Acks)
         /\ u.tex \in Seq(TexEntries)
         /\ u.waiting \subseteq Accesses /\ u.ready \subseteq Accesses
         /\ u.nextGlobal \in Accesses \cup {None}
         /\ u.nextWb \in Accesses \cup Instructions \cup {None}
         /\ u.arb \in 0 .. 4 /\ u.pending \in Pendings /\ u.reserved \subseteq Keys
         /\ u.stores \in [Warps -> Int] /\ u.inPipe \in [Warps -> Int]
         /\ u.reads \subseteq Accesses /\ u.writes \in [Warps -> Nat]
BY DEF CoreRecords

\* Where an outstanding access is.
LEMMA RequestsAre ==
  ASSUME NEW u \in CoreRecords
  PROVE  /\ Requests(u) \subseteq Accesses
         /\ \A m : m \in Requests(u) <=>
              m \in u.reads \/ \E i \in DOMAIN u.fifo : u.fifo[i] = m /\ m.path # "ack"
<1>1. u.fifo \in Seq(Accesses \cup Acks) /\ u.reads \subseteq Accesses
  BY CoreFields
<1>2. ToSet(u.fifo) = {u.fifo[i] : i \in DOMAIN u.fifo}
  BY DEF ToSet
<1>3. \A i \in DOMAIN u.fifo : u.fifo[i] \in Accesses \cup Acks
  BY <1>1
<1>4. \A m \in Acks : m.path = "ack"
  BY DEF Acks
<1> QED BY <1>1, <1>2, <1>3, <1>4 DEF Requests

LEMMA SharedIs ==
  ASSUME NEW m, SharedLoad(m)
  PROVE  m \in Instructions /\ ~ Answered(m) /\ m \notin Accesses /\ Key(m) \in Keys
<1>1. m \notin Accesses
  BY AccessAnswered DEF SharedLoad
<1> QED BY <1>1, InstructionAnswered DEF SharedLoad

LEMMA OutstandingIs ==
  ASSUME NEW u \in CoreRecords, Kinds(u)
  PROVE  /\ Outstanding(u) \subseteq Accesses
         /\ \A a : a \in Outstanding(u) <=>
              \/ a \in u.waiting \/ a \in u.ready \/ a \in Requests(u)
              \/ \E i \in DOMAIN u.tex : u.tex[i].access = a
              \/ a = u.nextGlobal /\ a # None
              \/ a = u.nextWb /\ a \in Accesses
<1>1. /\ u.waiting \subseteq Accesses /\ u.ready \subseteq Accesses
      /\ u.nextGlobal \in Accesses \cup {None} /\ u.nextWb \in Accesses \cup Instructions \cup {None}
  BY CoreFields
<1>2. Requests(u) \subseteq Accesses
  BY RequestsAre
<1>3. \A i \in DOMAIN u.tex : u.tex[i].access \in Accesses
  <2>1. u.tex \in Seq(TexEntries)
    BY CoreFields
  <2>2. \A i \in DOMAIN u.tex : u.tex[i] \in TexEntries
    BY <2>1
  <2> QED BY <2>2 DEF TexEntries
<1>4. {e.access : e \in ToSet(u.tex)} = {u.tex[i].access : i \in DOMAIN u.tex}
  BY DEF ToSet
<1>5. ASSUME NEW a
      PROVE  a \in {m \in {u.nextGlobal, u.nextWb} \ {None} : Answered(m)}
               <=> (a = u.nextGlobal /\ a # None) \/ (a = u.nextWb /\ a \in Accesses)
  <2>1. u.nextGlobal # None => Answered(u.nextGlobal)
    BY <1>1, AccessAnswered
  <2>2. u.nextWb # None => (Answered(u.nextWb) <=> u.nextWb \in Accesses)
    BY SharedIs, AccessAnswered DEF Kinds
  <2>3. None \notin Accesses
    BY NoneIsNone
  <2> QED BY <2>1, <2>2, <2>3
<1>6. PICK H : H = {m \in {u.nextGlobal, u.nextWb} \ {None} : Answered(m)}
  OBVIOUS
<1>7. Outstanding(u) = u.waiting \cup u.ready \cup Requests(u)
                         \cup {u.tex[i].access : i \in DOMAIN u.tex} \cup H
  BY <1>4, <1>6 DEF Outstanding, Requests
<1>8. \A a : a \in H <=> (a = u.nextGlobal /\ a # None) \/ (a = u.nextWb /\ a \in Accesses)
  BY <1>5, <1>6
<1> HIDE <1>6
<1> QED BY <1>1, <1>2, <1>3, <1>7, <1>8

\* What depends on some of the fields only.
LEMMA OutstandingSame ==
  ASSUME NEW u, NEW v, v.waiting = u.waiting, v.ready = u.ready, v.reads = u.reads,
         v.fifo = u.fifo, v.tex = u.tex, v.nextGlobal = u.nextGlobal, v.nextWb = u.nextWb
  PROVE  /\ Outstanding(v) = Outstanding(u) /\ Requests(v) = Requests(u)
         /\ Places(u) => Places(v)
<1>1. Outstanding(v) = Outstanding(u) /\ Requests(v) = Requests(u)
  BY DEF Outstanding, Requests
<1> QED BY <1>1 DEF Places

\* Parts of Sound that a stage does not touch.
LEMMA StoresSame ==
  ASSUME NEW u, NEW v, v.stores = u.stores, v.writes = u.writes, v.fifo = u.fifo,
         StoresCounted(u)
  PROVE  StoresCounted(v)
BY DEF StoresCounted

LEMMA PipeSame ==
  ASSUME NEW u, NEW v, v.inPipe = u.inPipe, v.collecting = u.collecting,
         v.dispatch = u.dispatch, v.pipe = u.pipe, PipeCounted(u)
  PROVE  PipeCounted(v)
BY DEF PipeCounted

LEMMA LoadsFinite ==
  ASSUME NEW u, Kinds(u), NEW k
  PROVE  IsFiniteSet(LoadsOf(u.collecting, k)) /\ Cardinality(LoadsOf(u.collecting, k)) \in Nat
<1>1. LoadsOf(u.collecting, k) \in SUBSET Copies(u.collecting)
  BY DEF LoadsOf
<1>2. IsFiniteSet(LoadsOf(u.collecting, k))
  BY <1>1, FS_Subset DEF Kinds
<1> QED BY <1>2, FS_CardinalityType

LEMMA CopiesFinite ==
  ASSUME NEW u, Kinds(u), NEW w
  PROVE  IsFiniteSet(CopiesOf(u.collecting, w)) /\ Cardinality(CopiesOf(u.collecting, w)) \in Nat
<1>1. CopiesOf(u.collecting, w) \in SUBSET Copies(u.collecting)
  BY DEF CopiesOf
<1>2. IsFiniteSet(CopiesOf(u.collecting, w))
  BY <1>1, FS_Subset DEF Kinds
<1> QED BY <1>2, FS_CardinalityType

\* The terms of the sums are natural numbers.
LEMMA TermsNatural ==
  ASSUME NEW u, Kinds(u), NEW k
  PROVE  /\ HoldsShared(u.nextWb, k) \in {0, 1} /\ HoldsShared(u.dispatch, k) \in {0, 1}
         /\ HoldsShared(u.pipe[1], k) \in {0, 1} /\ HoldsShared(u.pipe[2], k) \in {0, 1}
         /\ HoldsShared(u.pipe[3], k) \in {0, 1}
         /\ Belongs(k, DOMAIN u.pending) \in {0, 1} /\ Belongs(k, u.reserved) \in {0, 1}
         /\ Cardinality(LoadsOf(u.collecting, k)) \in Nat
BY LoadsFinite DEF HoldsShared, Belongs

\* What holds a register.
HeldAt(u, k) ==
  HoldsShared(u.nextWb, k) + HoldsShared(u.pipe[1], k) + HoldsShared(u.pipe[2], k)
    + HoldsShared(u.pipe[3], k) + HoldsShared(u.dispatch, k)
    + Belongs(k, DOMAIN u.pending) + Cardinality(LoadsOf(u.collecting, k))
    = Belongs(k, u.reserved)

LEMMA HeldEach ==
  ASSUME NEW u
  PROVE  Held(u) <=> \A k \in Keys : HeldAt(u, k)
BY DEF Held, HeldAt

-----------------------------------------------------------------------------
(* writeback().                                                            *)

WrittenChange(u, v, reserved, pending) ==
  /\ v \in CoreRecords
  /\ v.nextWb = None /\ v.reserved = reserved /\ v.pending = pending
  /\ v.collecting = u.collecting /\ v.dispatch = u.dispatch /\ v.pipe = u.pipe
  /\ v.fifo = u.fifo /\ v.tex = u.tex /\ v.waiting = u.waiting /\ v.ready = u.ready
  /\ v.nextGlobal = u.nextGlobal /\ v.stores = u.stores /\ v.inPipe = u.inPipe
  /\ v.reads = u.reads /\ v.writes = u.writes

LEMMA WrittenFields ==
  ASSUME NEW u \in CoreRecords, u.nextWb # None, NEW k, k = Key(u.nextWb), NEW v, v = Written(u)
  PROVE  \/ /\ u.nextWb.path = "shared" \/ u.pending[k] = 1
            /\ WrittenChange(u, v, u.reserved \ {k}, WithoutKey(u.pending, k))
         \/ /\ ~ (u.nextWb.path = "shared" \/ u.pending[k] = 1)
            /\ WrittenChange(u, v, u.reserved, [u.pending EXCEPT ![k] = @ - 1])
<1>1. u.pending \in [DOMAIN u.pending -> Int] /\ DOMAIN u.pending \subseteq Keys
  BY CoreFields, PendingsAre
<1>2. CASE u.nextWb.path = "shared" \/ u.pending[k] = 1
  <2>1. v = [u EXCEPT !.nextWb = None, !.reserved = @ \ {k}, !.pending = WithoutKey(@, k)]
    BY <1>2 DEF Written
  <2>2. PICK Q : Q = WithoutKey(u.pending, k)
    OBVIOUS
  <2>3. Q \in Pendings
    <3>1. Q \in [DOMAIN Q -> Int] /\ DOMAIN Q \subseteq Keys
      BY <1>1, <2>2 DEF WithoutKey
    <3> QED BY <3>1, PendingsAre
  <2>4. PICK R \in SUBSET Keys : R = u.reserved \ {k}
    BY CoreFields
  <2>5. v = [u EXCEPT !.nextWb = None, !.reserved = R, !.pending = Q]
    BY <2>1, <2>2, <2>4
  <2>6. WrittenChange(u, v, R, Q)
    BY <2>3, <2>5 DEF WrittenChange, CoreRecords
  <2> QED BY <1>2, <2>2, <2>4, <2>6
<1>3. CASE ~ (u.nextWb.path = "shared" \/ u.pending[k] = 1)
  <2>1. v = [u EXCEPT !.nextWb = None, !.pending[k] = @ - 1]
    BY <1>3 DEF Written
  <2>2. PICK Q : Q = [u.pending EXCEPT ![k] = @ - 1]
    OBVIOUS
  <2>3. Q \in Pendings
    <3>1. DOMAIN Q = DOMAIN u.pending
      BY <2>2
    <3>2. \A j \in DOMAIN Q : Q[j] \in Int
      BY <1>1, <2>2
    <3>3. Q = [j \in DOMAIN Q |-> Q[j]]
      BY <2>2
    <3>4. Q \in [DOMAIN Q -> Int] /\ DOMAIN Q \subseteq Keys
      BY <1>1, <3>1, <3>2, <3>3
    <3> QED BY <3>4, PendingsAre
  <2>4. v = [u EXCEPT !.nextWb = None, !.pending = Q]
    BY <2>1, <2>2
  <2>5. WrittenChange(u, v, u.reserved, Q)
    BY <2>3, <2>4 DEF WrittenChange, CoreRecords
  <2> QED BY <1>3, <2>2, <2>5
<1> QED BY <1>2, <1>3

\* What stays when the register of m_next_wb is empty afterwards.
LEMMA WbGone ==
  ASSUME NEW u \in CoreRecords, Kinds(u), Places(u), u.nextWb # None, NEW v, NEW R, NEW Q,
         WrittenChange(u, v, R, Q)
  PROVE  /\ Kinds(v) /\ Places(v) /\ Requests(v) = Requests(u)
         /\ u.nextWb \in Accesses => u.nextWb \in Outstanding(u)
         /\ Outstanding(v) = Outstanding(u) \ {u.nextWb}
<1>1. Kinds(v)
  BY DEF Kinds, WrittenChange
<1>2. Requests(v) = Requests(u)
  BY DEF Requests, WrittenChange
<1>3. \A a : a \in Outstanding(v) <=> a \in Outstanding(u) /\ a # u.nextWb
  <2>1. ASSUME NEW a
        PROVE  a \in Outstanding(v) <=>
                 \/ a \in u.waiting \/ a \in u.ready \/ a \in Requests(u)
                 \/ \E i \in DOMAIN u.tex : u.tex[i].access = a
                 \/ a = u.nextGlobal /\ a # None
    <3>1. a \in Outstanding(v) <=>
              \/ a \in v.waiting \/ a \in v.ready \/ a \in Requests(v)
              \/ \E i \in DOMAIN v.tex : v.tex[i].access = a
              \/ a = v.nextGlobal /\ a # None
              \/ a = v.nextWb /\ a \in Accesses
      BY <1>1, OutstandingIs DEF WrittenChange
    <3> QED BY <1>2, <3>1, NoneIsNone DEF WrittenChange
  <2>2. ASSUME NEW a
        PROVE  a \in Outstanding(u) <=>
                 \/ a \in u.waiting \/ a \in u.ready \/ a \in Requests(u)
                 \/ \E i \in DOMAIN u.tex : u.tex[i].access = a
                 \/ a = u.nextGlobal /\ a # None
                 \/ a = u.nextWb /\ a \in Accesses
    BY OutstandingIs
  <2>3. u.nextWb \notin Outstanding(v)
    BY <2>1 DEF Places
  <2> QED BY <2>1, <2>2, <2>3
<1>4. Outstanding(v) = Outstanding(u) \ {u.nextWb}
  BY <1>3
<1>5. IsFiniteSet(Outstanding(v))
  BY <1>4, FS_Subset DEF Places
<1>6. Places(v)
  <2>1. \A m \in Requests(v) : m # v.nextWb
    BY <1>2, RequestsAre, NoneIsNone DEF WrittenChange
  <2> QED BY <1>2, <1>5, <2>1 DEF Places, WrittenChange
<1>7. u.nextWb \in Accesses => u.nextWb \in Outstanding(u)
  BY OutstandingIs
<1> QED BY <1>1, <1>2, <1>4, <1>6, <1>7

LEMMA WrittenSound ==
  ASSUME NEW u, Sound(u), Between(u), u.nextWb # None, NEW v, v = Written(u)
  PROVE  Sound(v) /\ Between(v)
<1>1. u \in CoreRecords /\ Kinds(u) /\ Places(u) /\ Ahead(Outstanding(u), u.dispatch)
      /\ Matches(u.pending, Outstanding(u), u.dispatch)
      /\ Held(u) /\ StoresCounted(u) /\ PipeCounted(u)
  BY DEF Sound
<1>2. PICK k : k = Key(u.nextWb)
  OBVIOUS
<1>3. u.nextWb \in Accesses \/ SharedLoad(u.nextWb)
  BY <1>1 DEF Kinds
<1>4. k \in Keys
  BY <1>2, <1>3, AccessAnswered, SharedIs
<1>5. PICK R, Q :
        /\ WrittenChange(u, v, R, Q)
        /\ \/ /\ u.nextWb.path = "shared" \/ u.pending[k] = 1
              /\ R = u.reserved \ {k} /\ Q = WithoutKey(u.pending, k)
           \/ /\ ~ (u.nextWb.path = "shared" \/ u.pending[k] = 1)
              /\ R = u.reserved /\ Q = [u.pending EXCEPT ![k] = @ - 1]
  BY <1>1, <1>2, WrittenFields
<1>6. Kinds(v) /\ Places(v) /\ Requests(v) = Requests(u)
      /\ Outstanding(v) = Outstanding(u) \ {u.nextWb}
      /\ (u.nextWb \in Accesses => u.nextWb \in Outstanding(u))
  BY <1>1, <1>5, WbGone
<1>7. u.pending \in [DOMAIN u.pending -> Int] /\ DOMAIN u.pending \subseteq Keys
  BY <1>1, CoreFields, PendingsAre
<1>8. u.dispatch = None \/ u.dispatch \in Instructions
  BY <1>1, CoreFields
<1>9. ASSUME SharedLoad(u.nextWb)
      PROVE  Q = u.pending /\ R = u.reserved \ {k} /\ Held(v)
  <2>1. u.nextWb.path = "shared" /\ ~ u.nextWb.store
    BY <1>9 DEF SharedLoad
  <2>2. HoldsShared(u.nextWb, k) = 1
    BY <1>2, <2>1 DEF HoldsShared
  <2>3. k \notin DOMAIN u.pending
    <3>1. \A m : HoldsShared(m, k) \in {0, 1}
      BY DEF HoldsShared
    <3>2. Cardinality(LoadsOf(u.collecting, k)) \in Nat
      BY <1>1, LoadsFinite
    <3>3. Belongs(k, DOMAIN u.pending) = 0
      BY <1>1, <1>4, <2>2, <3>1, <3>2 DEF Held, Belongs
    <3> QED BY <3>3 DEF Belongs
  <2>4. Q = u.pending /\ R = u.reserved \ {k}
    BY <1>5, <1>7, <2>1, <2>3 DEF WithoutKey
  <2>5. ASSUME NEW j \in Keys
        PROVE  /\ HoldsShared(v.nextWb, j) = 0
               /\ HoldsShared(u.nextWb, j) = IF j = k THEN 1 ELSE 0
               /\ Belongs(j, R) = IF j = k THEN 0 ELSE Belongs(j, u.reserved)
               /\ j = k => Belongs(j, u.reserved) = 1
    <3>1. HoldsShared(v.nextWb, j) = 0
      BY <1>5 DEF WrittenChange, HoldsShared
    <3>2. HoldsShared(u.nextWb, j) = IF j = k THEN 1 ELSE 0
      BY <1>2, <2>1 DEF HoldsShared
    <3>3. Belongs(j, R) = IF j = k THEN 0 ELSE Belongs(j, u.reserved)
      BY <2>4 DEF Belongs
    <3>4. \A m : HoldsShared(m, k) \in {0, 1}
      BY DEF HoldsShared
    <3>5. Cardinality(LoadsOf(u.collecting, k)) \in Nat
      BY <1>1, LoadsFinite
    <3>6. j = k => Belongs(j, u.reserved) = 1
      BY <1>1, <1>4, <2>2, <3>4, <3>5 DEF Held, Belongs
    <3> QED BY <3>1, <3>2, <3>3, <3>6
  <2>6. ASSUME NEW j \in Keys PROVE HeldAt(v, j)
    <3>1. v.pipe = u.pipe /\ v.dispatch = u.dispatch /\ v.pending = u.pending
          /\ v.collecting = u.collecting /\ v.reserved = R
      BY <1>5, <2>4 DEF WrittenChange
    <3>2. HeldAt(u, j)
      BY <1>1, HeldEach
    <3> QED BY <1>1, <2>5, <3>1, <3>2, TermsNatural DEF HeldAt
  <2> QED BY <2>4, <2>6, HeldEach
<1>10. ASSUME u.nextWb \in Accesses
       PROVE  Matches(Q, Outstanding(u) \ {u.nextWb}, u.dispatch) /\ Held(v)
  <2>1. u.nextWb.path # "shared" /\ u.nextWb \in Outstanding(u)
    BY <1>6, <1>10, AccessAnswered
  <2>2. Loads(u.dispatch, k) => u.dispatch.blocks # <<>>
    BY <1>2, <2>1 DEF Between, Loads
  <2>3. Q = IF u.pending[k] = 1 THEN WithoutKey(u.pending, k) ELSE [u.pending EXCEPT ![k] = @ - 1]
    BY <1>5, <2>1
  <2>4. IsFiniteSet(Outstanding(u))
    BY <1>1 DEF Places
  <2>5. k \in DOMAIN u.pending /\ Matches(Q, Outstanding(u) \ {u.nextWb}, u.dispatch)
    <3>1. PICK P, out, d, x : P = u.pending /\ out = Outstanding(u) /\ d = u.dispatch /\ x = u.nextWb
      OBVIOUS
    <3>2. /\ P \in [DOMAIN P -> Int] /\ IsFiniteSet(out) /\ (d = None \/ d \in Instructions)
          /\ Matches(P, out, d) /\ x \in out /\ k = Key(x) /\ (Loads(d, k) => d.blocks # <<>>)
          /\ Q = IF P[k] = 1 THEN WithoutKey(P, k) ELSE [P EXCEPT ![k] = @ - 1]
      BY <1>1, <1>2, <1>7, <1>8, <2>1, <2>2, <2>3, <2>4, <3>1
    <3>3. k \in DOMAIN P /\ Matches(Q, out \ {x}, d)
      BY <1>4, <3>2, MatchesWritten
    <3> QED BY <3>1, <3>3
  <2>6. ASSUME NEW j \in Keys PROVE HeldAt(v, j)
    <3>1. HoldsShared(v.nextWb, j) = 0 /\ HoldsShared(u.nextWb, j) = 0
      BY <1>5, <2>1 DEF WrittenChange, HoldsShared
    <3>2. v.pipe = u.pipe /\ v.dispatch = u.dispatch /\ v.pending = Q
          /\ v.collecting = u.collecting /\ v.reserved = R
      BY <1>5 DEF WrittenChange
    <3>3. CASE u.pending[k] = 1 /\ j = k
      <4>1. Belongs(j, DOMAIN Q) = 0 /\ Belongs(j, R) = 0 /\ Belongs(j, DOMAIN u.pending) = 1
        BY <1>5, <2>3, <2>5, <3>3 DEF Belongs, WithoutKey
      <4>2. HeldAt(u, j)
        BY <1>1, HeldEach
      <4> QED BY <1>1, <3>1, <3>2, <4>1, <4>2, TermsNatural DEF HeldAt
    <3>4. CASE ~ (u.pending[k] = 1 /\ j = k)
      <4>1. Belongs(j, DOMAIN Q) = Belongs(j, DOMAIN u.pending)
        BY <2>3, <3>4 DEF Belongs, WithoutKey
      <4>2. Belongs(j, R) = Belongs(j, u.reserved)
        BY <1>5, <2>1, <3>4 DEF Belongs
      <4> QED BY <1>1, <3>1, <3>2, <4>1, <4>2, HeldEach DEF HeldAt
    <3> QED BY <3>3, <3>4
  <2> QED BY <2>5, <2>6, HeldEach
<1>11. Matches(v.pending, Outstanding(v), v.dispatch) /\ Held(v)
  <2>1. CASE SharedLoad(u.nextWb)
    <3>1. Outstanding(u) \ {u.nextWb} = Outstanding(u)
      BY <1>1, <2>1, SharedIs, OutstandingIs
    <3> QED BY <1>1, <1>5, <1>6, <1>9, <2>1, <3>1 DEF WrittenChange
  <2>2. CASE u.nextWb \in Accesses
    BY <1>5, <1>6, <1>10, <2>2 DEF WrittenChange
  <2> QED BY <1>3, <2>1, <2>2
<1>12. Ahead(Outstanding(v), v.dispatch) /\ Between(v)
  <2>1. v.dispatch = u.dispatch
    BY <1>5 DEF WrittenChange
  <2>2. Ahead(Outstanding(v), v.dispatch)
    BY <1>1, <1>6, <2>1 DEF Ahead
  <2>3. Between(v)
    BY <1>6, <2>1 DEF Between
  <2> QED BY <2>2, <2>3
<1>13. StoresCounted(v) /\ PipeCounted(v)
  BY <1>1, <1>5, StoresSame, PipeSame DEF WrittenChange
<1> QED BY <1>5, <1>6, <1>11, <1>12, <1>13 DEF Sound, WrittenChange

-----------------------------------------------------------------------------
(* m_next_wb is filled by a client of the arbiter.                         *)

\* Fields that no client but the pipeline changes, and those that hold accesses.
RestKept(u, v) ==
  /\ v \in CoreRecords
  /\ v.collecting = u.collecting /\ v.dispatch = u.dispatch /\ v.pipe = u.pipe
  /\ v.fifo = u.fifo /\ v.waiting = u.waiting /\ v.pending = u.pending
  /\ v.reserved = u.reserved /\ v.stores = u.stores /\ v.inPipe = u.inPipe
  /\ v.reads = u.reads /\ v.writes = u.writes

HandedOver(u, v) ==
  \/ /\ u.pipe[1] # None /\ v \in CoreRecords
     /\ v.nextWb = u.pipe[1] /\ v.pipe = [u.pipe EXCEPT ![1] = None]
     /\ v.inPipe = [u.inPipe EXCEPT ![u.pipe[1].warp] = @ - 1]
     /\ v.collecting = u.collecting /\ v.dispatch = u.dispatch
     /\ v.fifo = u.fifo /\ v.waiting = u.waiting /\ v.pending = u.pending
     /\ v.reserved = u.reserved /\ v.stores = u.stores
     /\ v.reads = u.reads /\ v.writes = u.writes
     /\ v.tex = u.tex /\ v.ready = u.ready /\ v.nextGlobal = u.nextGlobal
  \/ /\ u.tex # <<>> /\ Head(u.tex).here /\ RestKept(u, v)
     /\ v.nextWb = Head(u.tex).access /\ v.tex = Tail(u.tex)
     /\ v.ready = u.ready /\ v.nextGlobal = u.nextGlobal
  \/ /\ u.nextGlobal # None /\ RestKept(u, v)
     /\ v.nextWb = u.nextGlobal /\ v.nextGlobal = None
     /\ v.tex = u.tex /\ v.ready = u.ready
  \/ /\ RestKept(u, v)
     /\ v.nextWb \in u.ready /\ v.ready = u.ready \ {v.nextWb}
     /\ v.tex = u.tex /\ v.nextGlobal = u.nextGlobal

LEMMA TexEntry ==
  ASSUME NEW u \in CoreRecords
  PROVE  /\ \A i \in DOMAIN u.tex : u.tex[i].access \in Accesses /\ u.tex[i].here \in BOOLEAN
         /\ DOMAIN u.tex = 1 .. Len(u.tex) /\ Len(u.tex) \in Nat
<1>1. u.tex \in Seq(TexEntries)
  BY CoreFields
<1>2. \A i \in DOMAIN u.tex : u.tex[i] \in TexEntries
  BY <1>1
<1> QED BY <1>1, <1>2 DEF TexEntries

\* What an instruction leaves that is handed over.
PipeHanded(u, v, d, p, f, m) ==
  v = [u EXCEPT !.nextWb = d, !.pipe = p, !.inPipe = f, !.arb = m]

LEMMA HandedType ==
  ASSUME NEW u \in CoreRecords, NEW d \in Instructions,
         NEW p \in [1 .. 3 -> Instructions \cup {None}], NEW f \in [Warps -> Int],
         NEW m \in 0 .. 4, NEW v, PipeHanded(u, v, d, p, f, m)
  PROVE  v \in CoreRecords
BY DEF CoreRecords, PipeHanded

\* What the fragment FIFO leaves that hands over its head.
TexHanded(u, v, a, t, m) == v = [u EXCEPT !.nextWb = a, !.tex = t, !.arb = m]

LEMMA TexHandedType ==
  ASSUME NEW u \in CoreRecords, NEW a \in Accesses, NEW t \in Seq(TexEntries),
         NEW m \in 0 .. 4, NEW v, TexHanded(u, v, a, t, m)
  PROVE  v \in CoreRecords
BY DEF CoreRecords, TexHanded

LEMMA HandedFields ==
  ASSUME NEW u \in CoreRecords, Kinds(u), NEW n, NEW w \in Offers(u, n), NEW v,
         v = [w EXCEPT !.arb = (n + 1) % 5]
  PROVE  n \in 0 .. 4 /\ HandedOver(u, v)
<1>1. CASE n = 0 /\ u.pipe[1] # None
  <2>1. PICK m \in 0 .. 4 : m = (n + 1) % 5
    BY <1>1
  <2>2. w = [u EXCEPT !.nextWb = u.pipe[1], !.pipe[1] = None, !.inPipe[u.pipe[1].warp] = @ - 1]
    BY <1>1 DEF Offers
  <2>3. PICK p : p = [u.pipe EXCEPT ![1] = None]
    OBVIOUS
  <2>4. PICK f : f = [u.inPipe EXCEPT ![u.pipe[1].warp] = @ - 1]
    OBVIOUS
  <2>5. p \in [1 .. 3 -> Instructions \cup {None}]
    BY <2>3, CoreFields
  <2>6. u.pipe[1] \in Instructions
    BY <1>1, CoreFields
  <2>7. f \in [Warps -> Int]
    BY <2>4, <2>6, CoreFields, InstructionAnswered
  <2>8. w = [u EXCEPT !.nextWb = u.pipe[1], !.pipe = p, !.inPipe = f]
    BY <2>2, <2>3, <2>4
  <2>9. v = [u EXCEPT !.nextWb = u.pipe[1], !.pipe = p, !.inPipe = f, !.arb = m]
    BY <2>1, <2>8
  <2>10. v \in CoreRecords
    <3>1. PipeHanded(u, v, u.pipe[1], p, f, m)
      BY <2>9, Zenon DEF PipeHanded
    <3> QED BY <2>1, <2>5, <2>6, <2>7, <3>1, HandedType, Zenon
  <2>11. u \in CoreRecords
    OBVIOUS
  <2>12. /\ v.nextWb = u.pipe[1] /\ v.pipe = p /\ v.inPipe = f
         /\ v.collecting = u.collecting /\ v.dispatch = u.dispatch
         /\ v.fifo = u.fifo /\ v.waiting = u.waiting /\ v.pending = u.pending
         /\ v.reserved = u.reserved /\ v.stores = u.stores
         /\ v.reads = u.reads /\ v.writes = u.writes
         /\ v.tex = u.tex /\ v.ready = u.ready /\ v.nextGlobal = u.nextGlobal
    BY <2>9, <2>11 DEF CoreRecords
  <2> QED BY <1>1, <2>3, <2>4, <2>10, <2>12 DEF HandedOver
<1>2. CASE ~ (n = 0 /\ u.pipe[1] # None) /\ n = 1 /\ u.tex # <<>> /\ Head(u.tex).here
  <2>1. PICK m \in 0 .. 4 : m = (n + 1) % 5
    BY <1>2
  <2>2. w = [u EXCEPT !.nextWb = Head(u.tex).access, !.tex = Tail(@)]
    BY <1>2 DEF Offers
  <2>3. PICK t : t = Tail(u.tex)
    OBVIOUS
  <2>4. t \in Seq(TexEntries) /\ Head(u.tex) = u.tex[1] /\ 1 \in DOMAIN u.tex
    BY <1>2, <2>3, CoreFields
  <2>5. PICK a : a = Head(u.tex).access
    OBVIOUS
  <2>6. a \in Accesses
    BY <2>4, <2>5, TexEntry
  <2>7. v = [u EXCEPT !.nextWb = a, !.tex = t, !.arb = m]
    BY <2>1, <2>2, <2>3, <2>5
  <2>8. v \in CoreRecords
    <3>1. TexHanded(u, v, a, t, m)
      BY <2>7, Zenon DEF TexHanded
    <3> QED BY <2>1, <2>4, <2>6, <3>1, TexHandedType, Zenon
  <2>9. RestKept(u, v) /\ v.nextWb = a /\ v.tex = t /\ v.ready = u.ready
        /\ v.nextGlobal = u.nextGlobal
    BY <2>7, <2>8 DEF CoreRecords, RestKept
  <2> QED BY <1>2, <2>3, <2>5, <2>9 DEF HandedOver
<1>3. CASE n = 3 /\ u.nextGlobal # None
  <2>1. PICK m \in 0 .. 4 : m = (n + 1) % 5
    BY <1>3
  <2>2. w = [u EXCEPT !.nextWb = u.nextGlobal, !.nextGlobal = None]
    BY <1>3 DEF Offers
  <2>3. PICK a : a = u.nextGlobal
    OBVIOUS
  <2>4. a \in Accesses
    BY <1>3, <2>3, CoreFields
  <2>5. v = [u EXCEPT !.nextWb = a, !.nextGlobal = None, !.arb = m]
    BY <2>1, <2>2, <2>3
  <2>6. v \in CoreRecords
    BY <2>4, <2>5, <2>1 DEF CoreRecords
  <2>7. RestKept(u, v) /\ v.nextWb = a /\ v.tex = u.tex /\ v.ready = u.ready
        /\ v.nextGlobal = None
    BY <2>5, <2>6 DEF CoreRecords, RestKept
  <2> QED BY <1>3, <2>3, <2>7 DEF HandedOver
<1>4. CASE n \in {2, 4}
  <2>1. PICK m \in 0 .. 4 : m = (n + 1) % 5
    BY <1>4
  <2>2. PICK a \in u.ready : w = [u EXCEPT !.nextWb = a, !.ready = @ \ {a}]
    <3>1. Offers(u, n) = {[u EXCEPT !.nextWb = a, !.ready = @ \ {a}] :
            a \in ReadyIn(u, IF n = 2 THEN {"const"} ELSE {"local", "global"})}
      <4>1. n # 0 /\ n # 1 /\ n # 3
        BY <1>4
      <4> QED BY <1>4, <4>1, Zenon DEF Offers
    <3>2. PICK S : S = ReadyIn(u, IF n = 2 THEN {"const"} ELSE {"local", "global"})
      OBVIOUS
    <3>3. S \subseteq u.ready
      BY <3>2 DEF ReadyIn
    <3>4. w \in {[u EXCEPT !.nextWb = a, !.ready = @ \ {a}] : a \in S}
      BY <3>1, <3>2
    <3> QED BY <3>3, <3>4
  <2>3. a \in Accesses
    BY CoreFields
  <2>4. PICK T \in SUBSET Accesses : T = u.ready \ {a}
    BY CoreFields
  <2>5. v = [u EXCEPT !.nextWb = a, !.ready = T, !.arb = m]
    BY <2>1, <2>2, <2>4
  <2>6. v \in CoreRecords
    BY <2>3, <2>5, <2>1 DEF CoreRecords
  <2>7. RestKept(u, v) /\ v.nextWb = a /\ v.tex = u.tex /\ v.ready = T
        /\ v.nextGlobal = u.nextGlobal
    BY <2>5, <2>6 DEF CoreRecords, RestKept
  <2> QED BY <1>4, <2>4, <2>7 DEF HandedOver
<1> QED BY <1>1, <1>2, <1>3, <1>4 DEF Offers

LEMMA HandedPipe ==
  ASSUME NEW u \in CoreRecords, Kinds(u), Places(u), u.nextWb = None, Held(u), PipeCounted(u),
         u.pipe[1] # None, NEW v \in CoreRecords,
         v.nextWb = u.pipe[1], v.pipe = [u.pipe EXCEPT ![1] = None],
         v.inPipe = [u.inPipe EXCEPT ![u.pipe[1].warp] = @ - 1],
         v.collecting = u.collecting, v.dispatch = u.dispatch,
         v.fifo = u.fifo, v.waiting = u.waiting, v.pending = u.pending,
         v.reserved = u.reserved, v.reads = u.reads,
         v.tex = u.tex, v.ready = u.ready, v.nextGlobal = u.nextGlobal
  PROVE  /\ Kinds(v) /\ Places(v) /\ Outstanding(v) = Outstanding(u)
         /\ Held(v) /\ PipeCounted(v)
<1>1. PICK d : d = u.pipe[1]
  OBVIOUS
<1>2. SharedLoad(d) /\ d \in Instructions /\ ~ Answered(d) /\ d \notin Accesses /\ d # None
  BY <1>1, SharedIs DEF Kinds
<1>3. /\ u.pipe \in [1 .. 3 -> Instructions \cup {None}]
      /\ v.pipe[1] = None /\ v.pipe[2] = u.pipe[2] /\ v.pipe[3] = u.pipe[3]
  BY CoreFields
<1>4. Kinds(v)
  <2>1. \A i \in 1 .. 3 : v.pipe[i] # None => SharedLoad(v.pipe[i])
    BY <1>3 DEF Kinds
  <2> QED BY <1>1, <1>2, <2>1 DEF Kinds
<1>5. Requests(v) = Requests(u)
  BY DEF Requests
<1>6. \A a : a \in Outstanding(v) <=> a \in Outstanding(u)
  <2>1. ASSUME NEW a
        PROVE  a \in Outstanding(v) <=>
              \/ a \in v.waiting \/ a \in v.ready \/ a \in Requests(v)
              \/ \E i \in DOMAIN v.tex : v.tex[i].access = a
              \/ a = v.nextGlobal /\ a # None
              \/ a = v.nextWb /\ a \in Accesses
    BY <1>4, OutstandingIs
  <2>2. ASSUME NEW a
        PROVE  a \in Outstanding(u) <=>
              \/ a \in u.waiting \/ a \in u.ready \/ a \in Requests(u)
              \/ \E i \in DOMAIN u.tex : u.tex[i].access = a
              \/ a = u.nextGlobal /\ a # None
              \/ a = u.nextWb /\ a \in Accesses
    BY OutstandingIs
  <2> QED BY <1>1, <1>2, <1>5, <2>1, <2>2, NoneIsNone
<1>7. Outstanding(v) = Outstanding(u)
  BY <1>6
<1>8. Places(v)
  <2>1. \A m \in Requests(v) : m # v.nextWb
    BY <1>1, <1>2, <1>5, RequestsAre
  <2>2. v.nextWb # v.nextGlobal /\ v.nextWb \notin v.waiting \cup v.ready
    BY <1>1, <1>2, CoreFields
  <2>3. \A i \in DOMAIN v.tex : v.tex[i].access # v.nextWb
    BY <1>1, <1>2, TexEntry
  <2> QED BY <1>5, <1>7, <2>1, <2>2, <2>3 DEF Places
<1>9. ASSUME NEW k \in Keys PROVE HeldAt(v, k)
  <2>1. HeldAt(u, k)
    BY HeldEach
  <2>2. HoldsShared(v.nextWb, k) = HoldsShared(u.pipe[1], k)
        /\ HoldsShared(v.pipe[1], k) = HoldsShared(u.nextWb, k)
    BY <1>3
  <2> QED BY <1>3, <2>1, <2>2, TermsNatural DEF HeldAt
<1>10. ASSUME NEW w \in Warps
       PROVE  v.inPipe[w] = Cardinality(CopiesOf(v.collecting, w)) + Named(v.dispatch, w)
                + Named(v.pipe[1], w) + Named(v.pipe[2], w) + Named(v.pipe[3], w)
  <2>1. u.inPipe[w] = Cardinality(CopiesOf(u.collecting, w)) + Named(u.dispatch, w)
                + Named(u.pipe[1], w) + Named(u.pipe[2], w) + Named(u.pipe[3], w)
    BY DEF PipeCounted
  <2>2. Named(v.pipe[1], w) = 0 /\ Named(u.pipe[1], w) = IF d.warp = w THEN 1 ELSE 0
    BY <1>1, <1>2, <1>3 DEF Named
  <2>3. v.inPipe[w] = IF d.warp = w THEN u.inPipe[w] - 1 ELSE u.inPipe[w]
    <3>1. u.inPipe \in [Warps -> Int]
      BY CoreFields
    <3> QED BY <1>1, <3>1
  <2>4. /\ Cardinality(CopiesOf(u.collecting, w)) \in Nat
        /\ Named(u.dispatch, w) \in {0, 1} /\ Named(u.pipe[2], w) \in {0, 1}
        /\ Named(u.pipe[3], w) \in {0, 1}
    BY CopiesFinite DEF Named
  <2> QED BY <1>3, <2>1, <2>2, <2>3, <2>4
<1> QED BY <1>4, <1>7, <1>8, <1>9, <1>10, HeldEach DEF PipeCounted

LEMMA HandedTex ==
  ASSUME NEW u \in CoreRecords, Kinds(u), Places(u), u.nextWb = None,
         u.tex # <<>>, Head(u.tex).here, NEW v, RestKept(u, v),
         v.nextWb = Head(u.tex).access, v.tex = Tail(u.tex),
         v.ready = u.ready, v.nextGlobal = u.nextGlobal
  PROVE  Kinds(v) /\ Places(v) /\ Outstanding(v) = Outstanding(u)
<1>1. PICK n \in Nat : n = Len(u.tex) /\ n > 0 /\ DOMAIN u.tex = 1 .. n
  BY TexEntry, CoreFields
<1>2. /\ DOMAIN v.tex = 1 .. n - 1
      /\ \A i \in DOMAIN v.tex : i + 1 \in DOMAIN u.tex /\ v.tex[i] = u.tex[i + 1]
      /\ \A i \in DOMAIN u.tex : i # 1 => i - 1 \in DOMAIN v.tex /\ v.tex[i - 1] = u.tex[i]
  <2>1. u.tex \in Seq(TexEntries)
    BY CoreFields
  <2>2. v.tex = [i \in 1 .. n - 1 |-> u.tex[i + 1]]
    BY <1>1, <2>1
  <2> QED BY <1>1, <2>2
<1>3. PICK a : a = Head(u.tex).access
  OBVIOUS
<1>4. 1 \in DOMAIN u.tex /\ u.tex[1].access = a /\ u.tex[1].here /\ a \in Accesses /\ a.path = "tex"
  <2>1. 1 \in DOMAIN u.tex /\ Head(u.tex) = u.tex[1]
    BY <1>1, CoreFields
  <2> QED BY <1>3, <2>1, TexEntry DEF Kinds
<1>5. Kinds(v)
  <2>1. \A i \in DOMAIN v.tex : v.tex[i].access.path = "tex"
    BY <1>2 DEF Kinds
  <2>2. v.nextWb # None => v.nextWb \in Accesses \/ SharedLoad(v.nextWb)
    BY <1>3, <1>4
  <2> QED BY <2>1, <2>2 DEF Kinds, RestKept
<1>6. Requests(v) = Requests(u)
  BY DEF Requests, RestKept
<1>7. \A i \in DOMAIN v.tex : v.tex[i].access # a
  BY <1>1, <1>2, <1>4 DEF Places
<1>8. \A b : (\E i \in DOMAIN u.tex : u.tex[i].access = b)
               <=> (b = a \/ \E i \in DOMAIN v.tex : v.tex[i].access = b)
  <2>1. ASSUME NEW i \in DOMAIN u.tex, u.tex[i].access # a
        PROVE  \E j \in DOMAIN v.tex : v.tex[j].access = u.tex[i].access
    <3>1. i # 1
      BY <1>4, <2>1
    <3> QED BY <1>2, <3>1
  <2>2. ASSUME NEW i \in DOMAIN v.tex
        PROVE  \E j \in DOMAIN u.tex : u.tex[j].access = v.tex[i].access
    BY <1>2
  <2> QED BY <1>4, <2>1, <2>2
<1>9. \A b : b \in Outstanding(v) <=> b \in Outstanding(u)
  <2>1. ASSUME NEW b
        PROVE  b \in Outstanding(v) <=>
              \/ b \in v.waiting \/ b \in v.ready \/ b \in Requests(v)
              \/ \E i \in DOMAIN v.tex : v.tex[i].access = b
              \/ b = v.nextGlobal /\ b # None
              \/ b = v.nextWb /\ b \in Accesses
    BY <1>5, OutstandingIs DEF RestKept
  <2>2. ASSUME NEW b
        PROVE  b \in Outstanding(u) <=>
              \/ b \in u.waiting \/ b \in u.ready \/ b \in Requests(u)
              \/ \E i \in DOMAIN u.tex : u.tex[i].access = b
              \/ b = u.nextGlobal /\ b # None
              \/ b = u.nextWb /\ b \in Accesses
    BY OutstandingIs
  <2>3. v.waiting = u.waiting
    BY DEF RestKept
  <2>4. \A b : (b = v.nextWb /\ b \in Accesses <=> b = a) /\ ~ (b = u.nextWb /\ b \in Accesses)
    BY <1>3, <1>4, NoneIsNone
  <2> HIDE <1>3
  <2>5. ASSUME NEW b PROVE b \in Outstanding(v) <=> b \in Outstanding(u)
    <3>1. (\E i \in DOMAIN u.tex : u.tex[i].access = b)
               <=> (b = a \/ \E i \in DOMAIN v.tex : v.tex[i].access = b)
      BY <1>8
    <3>2. (b = v.nextWb /\ b \in Accesses <=> b = a) /\ ~ (b = u.nextWb /\ b \in Accesses)
      BY <2>4
    <3> QED BY <1>6, <2>1, <2>2, <2>3, <3>1, <3>2
  <2> QED BY <2>5
<1>10. Outstanding(v) = Outstanding(u)
  BY <1>9
<1>11. Places(v)
  <2>1. ASSUME NEW m \in Requests(v)
        PROVE  /\ m.path = "tex" => \E i \in DOMAIN v.tex : v.tex[i].access = m /\ ~v.tex[i].here
               /\ m # v.nextWb /\ m # v.nextGlobal /\ (m.path \in Cached => m \in v.waiting)
    <3>1. m \in Requests(u)
      BY <1>6
    <3>2. ASSUME m.path = "tex"
          PROVE  \E i \in DOMAIN v.tex : v.tex[i].access = m /\ ~v.tex[i].here
      <4>1. PICK i \in DOMAIN u.tex : u.tex[i].access = m /\ ~u.tex[i].here
        BY <3>1, <3>2 DEF Places
      <4>2. i # 1
        BY <1>4, <4>1
      <4> QED BY <1>2, <4>1, <4>2
    <3>3. m # a
      BY <1>3, <1>4, <1>7, <3>2
    <3> QED BY <1>3, <3>1, <3>2, <3>3 DEF Places, RestKept
  <2>2. \A i, j \in DOMAIN v.tex : v.tex[i].access = v.tex[j].access => i = j
    <3> SUFFICES ASSUME NEW i \in DOMAIN v.tex, NEW j \in DOMAIN v.tex,
                        v.tex[i].access = v.tex[j].access
                 PROVE  i = j
      OBVIOUS
    <3>1. i + 1 = j + 1
      BY <1>2 DEF Places
    <3> QED BY <1>2, <3>1
  <2>3. v.nextWb # v.nextGlobal /\ v.nextWb \notin v.waiting \cup v.ready
    BY <1>3, <1>4, NoneIsNone DEF Kinds, RestKept, Cached
  <2>4. \A m, n2 \in Requests(v) :
       m.path \in Cached /\ n2.path \in Cached /\ SameCache(m.path, n2.path)
         /\ m.block = n2.block => m = n2
    BY <1>6 DEF Places
  <2>5. /\ v.waiting \cap v.ready = {}
        /\ \A i, j \in DOMAIN v.fifo : v.fifo[i].path # "ack" /\ v.fifo[i] = v.fifo[j] => i = j
        /\ \A i \in DOMAIN v.fifo : v.fifo[i] \notin v.reads
    BY DEF Places, RestKept
  <2>6. IsFiniteSet(Outstanding(v))
    BY <1>10 DEF Places
  <2> QED BY <1>3, <1>7, <2>1, <2>2, <2>3, <2>4, <2>5, <2>6 DEF Places
<1> QED BY <1>5, <1>10, <1>11

LEMMA HandedGlobal ==
  ASSUME NEW u \in CoreRecords, Kinds(u), Places(u), u.nextWb = None,
         u.nextGlobal # None, NEW v, RestKept(u, v), v.nextWb = u.nextGlobal,
         v.nextGlobal = None, v.tex = u.tex, v.ready = u.ready
  PROVE  Kinds(v) /\ Places(v) /\ Outstanding(v) = Outstanding(u)
<1>1. PICK a : a = u.nextGlobal
  OBVIOUS
<1>2. a \in Accesses /\ a.path = "bypass" /\ a # None
  BY <1>1, CoreFields DEF Kinds
<1>3. Kinds(v)
  BY <1>1, <1>2 DEF Kinds, RestKept
<1>4. Requests(v) = Requests(u)
  BY DEF Requests, RestKept
<1>5. \A b : b \in Outstanding(v) <=> b \in Outstanding(u)
  <2>1. ASSUME NEW b
        PROVE  b \in Outstanding(v) <=>
              \/ b \in v.waiting \/ b \in v.ready \/ b \in Requests(v)
              \/ \E i \in DOMAIN v.tex : v.tex[i].access = b
              \/ b = v.nextGlobal /\ b # None
              \/ b = v.nextWb /\ b \in Accesses
    BY <1>3, OutstandingIs DEF RestKept
  <2>2. ASSUME NEW b
        PROVE  b \in Outstanding(u) <=>
              \/ b \in u.waiting \/ b \in u.ready \/ b \in Requests(u)
              \/ \E i \in DOMAIN u.tex : u.tex[i].access = b
              \/ b = u.nextGlobal /\ b # None
              \/ b = u.nextWb /\ b \in Accesses
    BY OutstandingIs
  <2>3. v.waiting = u.waiting
    BY DEF RestKept
  <2> QED BY <1>1, <1>2, <1>4, <2>1, <2>2, <2>3, NoneIsNone
<1>6. Outstanding(v) = Outstanding(u)
  BY <1>5
<1>7. Places(v)
  <2>1. \A m \in Requests(v) : m # v.nextWb /\ m # v.nextGlobal
    BY <1>1, <1>4, RequestsAre, NoneIsNone DEF Places
  <2>2. v.nextWb # v.nextGlobal /\ v.nextWb \notin v.waiting \cup v.ready
    BY <1>1, <1>2 DEF Kinds, RestKept, Cached
  <2>3. \A i \in DOMAIN v.tex : v.tex[i].access # v.nextWb
    BY <1>1, <1>2 DEF Kinds
  <2> QED BY <1>4, <1>6, <2>1, <2>2, <2>3 DEF Places, RestKept
<1> QED BY <1>3, <1>6, <1>7

LEMMA HandedReady ==
  ASSUME NEW u \in CoreRecords, Kinds(u), Places(u), u.nextWb = None,
         NEW v, RestKept(u, v), v.nextWb \in u.ready,
         v.ready = u.ready \ {v.nextWb}, v.tex = u.tex, v.nextGlobal = u.nextGlobal
  PROVE  Kinds(v) /\ Places(v) /\ Outstanding(v) = Outstanding(u)
<1>1. PICK a : a = v.nextWb
  OBVIOUS
<1>2. a \in Accesses /\ a.path \in Cached /\ a \in u.ready
  BY <1>1, CoreFields DEF Kinds
<1>3. Kinds(v)
  BY <1>1, <1>2 DEF Kinds, RestKept
<1>4. Requests(v) = Requests(u)
  BY DEF Requests, RestKept
<1>5. \A b : b \in Outstanding(v) <=> b \in Outstanding(u)
  <2>1. ASSUME NEW b
        PROVE  b \in Outstanding(v) <=>
              \/ b \in v.waiting \/ b \in v.ready \/ b \in Requests(v)
              \/ \E i \in DOMAIN v.tex : v.tex[i].access = b
              \/ b = v.nextGlobal /\ b # None
              \/ b = v.nextWb /\ b \in Accesses
    BY <1>3, OutstandingIs DEF RestKept
  <2>2. ASSUME NEW b
        PROVE  b \in Outstanding(u) <=>
              \/ b \in u.waiting \/ b \in u.ready \/ b \in Requests(u)
              \/ \E i \in DOMAIN u.tex : u.tex[i].access = b
              \/ b = u.nextGlobal /\ b # None
              \/ b = u.nextWb /\ b \in Accesses
    BY OutstandingIs
  <2>3. v.waiting = u.waiting
    BY DEF RestKept
  <2> QED BY <1>1, <1>2, <1>4, <2>1, <2>2, <2>3, NoneIsNone
<1>6. Outstanding(v) = Outstanding(u)
  BY <1>5
<1>7. Places(v)
  <2>1. \A m \in Requests(v) : m # v.nextWb /\ m # v.nextGlobal
    <3>1. a \notin u.waiting
      BY <1>2 DEF Places
    <3> QED BY <1>1, <1>2, <1>4, <3>1 DEF Places
  <2>2. v.nextWb # v.nextGlobal
    BY <1>1, <1>2, NoneIsNone DEF Kinds, Cached
  <2>3. v.nextWb \notin v.waiting \cup v.ready /\ v.waiting \cap v.ready = {}
    BY <1>1, <1>2 DEF Places, RestKept
  <2>4. \A i \in DOMAIN v.tex : v.tex[i].access # v.nextWb
    BY <1>1, <1>2 DEF Kinds, Cached
  <2> QED BY <1>4, <1>6, <2>1, <2>2, <2>3, <2>4 DEF Places, RestKept
<1> QED BY <1>3, <1>6, <1>7

\* What the parts of Sound that count depend on.
LEMMA RestSound ==
  ASSUME NEW u, Sound(u), Between(u), NEW v, v \in CoreRecords, Kinds(v), Places(v),
         Outstanding(v) = Outstanding(u), v.dispatch = u.dispatch, v.pending = u.pending,
         Held(v), StoresCounted(v), PipeCounted(v)
  PROVE  Sound(v) /\ Between(v)
BY DEF Sound, Between

LEMMA HandedSound ==
  ASSUME NEW u, Sound(u), Between(u), u.nextWb = None, NEW v, HandedOver(u, v)
  PROVE  Sound(v) /\ Between(v)
<1>1. u \in CoreRecords /\ Kinds(u) /\ Places(u) /\ Held(u) /\ StoresCounted(u) /\ PipeCounted(u)
  BY DEF Sound
<1>2. CASE /\ u.pipe[1] # None /\ v \in CoreRecords
           /\ v.nextWb = u.pipe[1] /\ v.pipe = [u.pipe EXCEPT ![1] = None]
           /\ v.inPipe = [u.inPipe EXCEPT ![u.pipe[1].warp] = @ - 1]
           /\ v.collecting = u.collecting /\ v.dispatch = u.dispatch
           /\ v.fifo = u.fifo /\ v.waiting = u.waiting /\ v.pending = u.pending
           /\ v.reserved = u.reserved /\ v.stores = u.stores
           /\ v.reads = u.reads /\ v.writes = u.writes
           /\ v.tex = u.tex /\ v.ready = u.ready /\ v.nextGlobal = u.nextGlobal
  <2>1. Kinds(v) /\ Places(v) /\ Outstanding(v) = Outstanding(u) /\ Held(v) /\ PipeCounted(v)
    BY <1>1, <1>2, HandedPipe
  <2>2. StoresCounted(v)
    BY <1>1, <1>2, StoresSame
  <2> QED BY <1>2, <2>1, <2>2, RestSound
<1>3. ASSUME RestKept(u, v), Kinds(v), Places(v), Outstanding(v) = Outstanding(u),
             v.nextWb \in Accesses
      PROVE  Sound(v) /\ Between(v)
  <2>1. StoresCounted(v) /\ PipeCounted(v)
    BY <1>1, <1>3, StoresSame, PipeSame DEF RestKept
  <2>2. ASSUME NEW k \in Keys PROVE HeldAt(v, k)
    <3>1. HeldAt(u, k)
      BY <1>1, HeldEach
    <3>2. HoldsShared(v.nextWb, k) = HoldsShared(u.nextWb, k)
      BY <1>3, AccessAnswered DEF HoldsShared
    <3> QED BY <1>3, <3>1, <3>2 DEF HeldAt, RestKept
  <2>3. v \in CoreRecords /\ v.dispatch = u.dispatch /\ v.pending = u.pending
    BY <1>3 DEF RestKept
  <2> QED BY <1>3, <2>1, <2>2, <2>3, HeldEach, RestSound
<1>4. CASE /\ u.tex # <<>> /\ Head(u.tex).here /\ RestKept(u, v)
           /\ v.nextWb = Head(u.tex).access /\ v.tex = Tail(u.tex)
           /\ v.ready = u.ready /\ v.nextGlobal = u.nextGlobal
  <2>1. Kinds(v) /\ Places(v) /\ Outstanding(v) = Outstanding(u)
    BY <1>1, <1>4, HandedTex
  <2>2. v.nextWb \in Accesses
    <3>1. 1 \in DOMAIN u.tex /\ Head(u.tex) = u.tex[1]
      BY <1>1, <1>4, CoreFields
    <3> QED BY <1>1, <1>4, <3>1, TexEntry
  <2> QED BY <1>3, <1>4, <2>1, <2>2
<1>5. CASE /\ u.nextGlobal # None /\ RestKept(u, v)
           /\ v.nextWb = u.nextGlobal /\ v.nextGlobal = None
           /\ v.tex = u.tex /\ v.ready = u.ready
  <2>1. Kinds(v) /\ Places(v) /\ Outstanding(v) = Outstanding(u)
    BY <1>1, <1>5, HandedGlobal
  <2>2. v.nextWb \in Accesses
    BY <1>1, <1>5, CoreFields
  <2> QED BY <1>3, <1>5, <2>1, <2>2
<1>6. CASE /\ RestKept(u, v)
           /\ v.nextWb \in u.ready /\ v.ready = u.ready \ {v.nextWb}
           /\ v.tex = u.tex /\ v.nextGlobal = u.nextGlobal
  <2>1. Kinds(v) /\ Places(v) /\ Outstanding(v) = Outstanding(u)
    BY <1>1, <1>6, HandedReady
  <2>2. v.nextWb \in Accesses
    BY <1>1, <1>6, CoreFields
  <2> QED BY <1>3, <1>6, <2>1, <2>2
<1> QED BY <1>2, <1>4, <1>5, <1>6 DEF HandedOver

LEMMA NextWritebackSound ==
  ASSUME NEW u, Sound(u), Between(u), NEW v \in NextWriteback(u)
  PROVE  Sound(v) /\ Between(v) /\ v.dispatch = u.dispatch
<1>1. CASE u.nextWb # None \/ Offering(u) = {}
  BY <1>1 DEF NextWriteback
<1>2. CASE ~ (u.nextWb # None \/ Offering(u) = {})
  <2>1. PICK n : v \in {[w EXCEPT !.arb = (n + 1) % 5] : w \in Offers(u, n)}
    BY <1>2 DEF NextWriteback
  <2>2. PICK w \in Offers(u, n) : v = [w EXCEPT !.arb = (n + 1) % 5]
    BY <2>1
  <2>3. u \in CoreRecords /\ Kinds(u)
    BY DEF Sound
  <2>4. HandedOver(u, v)
    BY <2>2, <2>3, HandedFields
  <2>5. v.dispatch = u.dispatch
    BY <2>4 DEF HandedOver, RestKept
  <2> QED BY <1>2, <2>4, <2>5, HandedSound
<1> QED BY <1>1, <1>2

-----------------------------------------------------------------------------
(* What a stage leaves of a warp that nothing is left of.                  *)

LEMMA DrainedKept ==
  ASSUME NEW v, Sound(v), NEW u, NEW w \in Warps, Drained(u, w), v.reserved \subseteq u.reserved,
         v.inPipe[w] <= u.inPipe[w], v.stores[w] <= u.stores[w]
  PROVE  Drained(v, w)
<1>1. v \in CoreRecords /\ Kinds(v) /\ StoresCounted(v) /\ PipeCounted(v)
  BY DEF Sound
<1>2. /\ u.stores[w] = 0 /\ u.inPipe[w] = 0 /\ v.stores[w] \in Int /\ v.inPipe[w] \in Int
      /\ v.writes[w] \in Nat
  BY <1>1, CoreFields DEF Drained
<1>3. Cardinality(AcksOf(v.fifo, w)) \in Nat
  <2>1. v.fifo \in Seq(Accesses \cup Acks)
    BY <1>1, CoreFields
  <2>2. PICK n \in Nat : DOMAIN v.fifo = 1 .. n
    BY <2>1
  <2>3. AcksOf(v.fifo, w) \in SUBSET (1 .. n) /\ IsFiniteSet(1 .. n)
    BY <2>2, FS_Interval DEF AcksOf
  <2> QED BY <2>3, FS_Subset, FS_CardinalityType
<1>4. Cardinality(CopiesOf(v.collecting, w)) \in Nat
  BY <1>1, CopiesFinite
<1>5. v.stores[w] >= 0
  BY <1>1, <1>2, <1>3 DEF StoresCounted
<1>6. v.inPipe[w] >= 0
  <2>1. \A m : Named(m, w) \in {0, 1}
    BY DEF Named
  <2>2. /\ Named(v.dispatch, w) \in {0, 1} /\ Named(v.pipe[1], w) \in {0, 1}
        /\ Named(v.pipe[2], w) \in {0, 1} /\ Named(v.pipe[3], w) \in {0, 1}
    BY <2>1
  <2>3. v.inPipe[w] = Cardinality(CopiesOf(v.collecting, w)) + Named(v.dispatch, w)
                + Named(v.pipe[1], w) + Named(v.pipe[2], w) + Named(v.pipe[3], w)
    BY <1>1 DEF PipeCounted
  <2> HIDE DEF Named
  <2> QED BY <1>4, <2>2, <2>3
<1> QED BY <1>2, <1>5, <1>6 DEF Drained

\* What all the stages show of the core they find and the one they leave.
Keeps(u, v) == Sound(v) /\ \A w \in Warps : Drained(u, w) => Drained(v, w)

LEMMA WrittenKeeps ==
  ASSUME NEW u, Sound(u), Between(u), u.nextWb # None, NEW v, v = Written(u)
  PROVE  Keeps(u, v) /\ Between(v) /\ v.dispatch = u.dispatch
<1>1. Sound(v) /\ Between(v)
  BY WrittenSound
<1>2. u \in CoreRecords
  BY DEF Sound
<1>3. /\ v.reserved \subseteq u.reserved /\ v.inPipe = u.inPipe /\ v.stores = u.stores
      /\ v.dispatch = u.dispatch
  <2>1. PICK k : k = Key(u.nextWb)
    OBVIOUS
  <2>2. PICK R, Q : WrittenChange(u, v, R, Q) /\ (R = u.reserved \/ R = u.reserved \ {k})
    BY <1>2, <2>1, WrittenFields
  <2> QED BY <2>2 DEF WrittenChange
<1>4. ASSUME NEW w \in Warps, Drained(u, w) PROVE Drained(v, w)
  <2>1. v.inPipe[w] <= u.inPipe[w] /\ v.stores[w] <= u.stores[w]
    BY <1>2, <1>3, CoreFields
  <2> QED BY <1>1, <1>3, <1>4, <2>1, DrainedKept
<1> QED BY <1>1, <1>3, <1>4 DEF Keeps

LEMMA NextWritebackKeeps ==
  ASSUME NEW u, Sound(u), Between(u), NEW v \in NextWriteback(u)
  PROVE  Keeps(u, v) /\ Between(v) /\ v.dispatch = u.dispatch
<1>1. Sound(v) /\ Between(v) /\ v.dispatch = u.dispatch
  BY NextWritebackSound
<1>2. u \in CoreRecords /\ Kinds(u)
  BY DEF Sound
<1>3. v = u \/ HandedOver(u, v)
  <2>1. CASE u.nextWb # None \/ Offering(u) = {}
    BY <2>1 DEF NextWriteback
  <2>2. CASE ~ (u.nextWb # None \/ Offering(u) = {})
    <3>1. PICK n : v \in {[w EXCEPT !.arb = (n + 1) % 5] : w \in Offers(u, n)}
      BY <2>2 DEF NextWriteback
    <3>2. PICK w \in Offers(u, n) : v = [w EXCEPT !.arb = (n + 1) % 5]
      BY <3>1
    <3> QED BY <1>2, <3>2, HandedFields
  <2> QED BY <2>1, <2>2
<1>4. ASSUME NEW w \in Warps, Drained(u, w) PROVE Drained(v, w)
  <2>1. v.reserved = u.reserved /\ v.stores = u.stores
        /\ (v.inPipe = u.inPipe \/ v.inPipe = [u.inPipe EXCEPT ![u.pipe[1].warp] = @ - 1])
    BY <1>3 DEF HandedOver, RestKept
  <2>2. v.stores[w] <= u.stores[w]
    BY <1>2, <2>1, CoreFields
  <2>3. v.inPipe[w] <= u.inPipe[w]
    <3>1. u.inPipe \in [Warps -> Int]
      BY <1>2, CoreFields
    <3> QED BY <2>1, <3>1
  <2> QED BY <1>1, <1>4, <2>1, <2>2, <2>3, DrainedKept
<1> QED BY <1>1, <1>4 DEF Keeps

-----------------------------------------------------------------------------
(* The shared memory pipeline.                                             *)

LEMMA MovePipeKeeps ==
  ASSUME NEW u, Sound(u), Between(u), NEW v, v = MovePipe(u)
  PROVE  Keeps(u, v) /\ Between(v) /\ v.dispatch = u.dispatch
<1>1. u \in CoreRecords /\ Kinds(u) /\ Places(u) /\ Held(u) /\ StoresCounted(u) /\ PipeCounted(u)
  BY DEF Sound
<1>2. PICK p1, p2, p3 : p1 = u.pipe[1] /\ p2 = u.pipe[2] /\ p3 = u.pipe[3]
  OBVIOUS
<1>3. {p1, p2, p3} \subseteq Instructions \cup {None}
  BY <1>1, <1>2, CoreFields
<1>4. PICK middle : middle = IF p1 = None THEN None ELSE p2
  OBVIOUS
<1>5. PICK q1, q2, q3 : /\ q1 = IF p1 = None THEN p2 ELSE p1
                        /\ q2 = IF middle = None THEN p3 ELSE middle
                        /\ q3 = IF middle = None THEN None ELSE p3
  OBVIOUS
<1>6. v = [u EXCEPT !.pipe = <<q1, q2, q3>>]
  BY <1>2, <1>4, <1>5 DEF MovePipe
<1>7. {q1, q2, q3} \subseteq Instructions \cup {None}
  BY <1>3, <1>4, <1>5
<1>8. PICK q \in [1 .. 3 -> Instructions \cup {None}] : q = <<q1, q2, q3>>
  <2>1. PICK S : S = Instructions \cup {None}
    OBVIOUS
  <2>2. q1 \in S /\ q2 \in S /\ q3 \in S
    BY <1>7, <2>1
  <2> HIDE <2>1
  <2>3. <<q1, q2, q3>> \in [1 .. 3 -> S]
    BY <2>2
  <2> QED BY <2>1, <2>3
<1>9. q[1] = q1 /\ q[2] = q2 /\ q[3] = q3
  BY <1>8
<1>10. v = [u EXCEPT !.pipe = q]
  BY <1>6, <1>8
<1>11. /\ v \in CoreRecords /\ v.pipe = q
       /\ v.collecting = u.collecting /\ v.dispatch = u.dispatch /\ v.fifo = u.fifo
       /\ v.tex = u.tex /\ v.waiting = u.waiting /\ v.ready = u.ready
       /\ v.nextGlobal = u.nextGlobal /\ v.nextWb = u.nextWb /\ v.pending = u.pending
       /\ v.reserved = u.reserved /\ v.stores = u.stores /\ v.inPipe = u.inPipe
       /\ v.reads = u.reads /\ v.writes = u.writes
  BY <1>1, <1>10 DEF CoreRecords
<1>12. Kinds(v)
  <2>1. \A i \in 1 .. 3 : q[i] # None => SharedLoad(q[i])
    BY <1>1, <1>2, <1>4, <1>5, <1>9 DEF Kinds
  <2> QED BY <1>1, <1>11, <2>1 DEF Kinds
<1>13. Outstanding(v) = Outstanding(u) /\ Places(v)
  BY <1>1, <1>11, OutstandingSame
<1>14. ASSUME NEW k \in Keys PROVE HeldAt(v, k)
  <2>1. HoldsShared(q1, k) + HoldsShared(q2, k) + HoldsShared(q3, k)
          = HoldsShared(p1, k) + HoldsShared(p2, k) + HoldsShared(p3, k)
    BY <1>4, <1>5 DEF HoldsShared
  <2>2. HeldAt(u, k)
    BY <1>1, HeldEach
  <2>3. /\ HoldsShared(p1, k) \in {0, 1} /\ HoldsShared(p2, k) \in {0, 1}
        /\ HoldsShared(p3, k) \in {0, 1} /\ HoldsShared(q1, k) \in {0, 1}
        /\ HoldsShared(q2, k) \in {0, 1} /\ HoldsShared(q3, k) \in {0, 1}
    BY DEF HoldsShared
  <2> QED BY <1>1, <1>2, <1>9, <1>11, <2>1, <2>2, <2>3, TermsNatural DEF HeldAt
<1>15. PipeCounted(v)
  <2>1. ASSUME NEW w \in Warps
        PROVE  v.inPipe[w] = Cardinality(CopiesOf(v.collecting, w)) + Named(v.dispatch, w)
                + Named(v.pipe[1], w) + Named(v.pipe[2], w) + Named(v.pipe[3], w)
    <3>1. Named(q1, w) + Named(q2, w) + Named(q3, w)
            = Named(p1, w) + Named(p2, w) + Named(p3, w)
      BY <1>4, <1>5 DEF Named
    <3>2. u.inPipe[w] = Cardinality(CopiesOf(u.collecting, w)) + Named(u.dispatch, w)
                + Named(u.pipe[1], w) + Named(u.pipe[2], w) + Named(u.pipe[3], w)
      BY <1>1 DEF PipeCounted
    <3>3. /\ Named(p1, w) \in {0, 1} /\ Named(p2, w) \in {0, 1} /\ Named(p3, w) \in {0, 1}
          /\ Named(q1, w) \in {0, 1} /\ Named(q2, w) \in {0, 1} /\ Named(q3, w) \in {0, 1}
          /\ Named(u.dispatch, w) \in {0, 1}
      BY DEF Named
    <3>4. Cardinality(CopiesOf(u.collecting, w)) \in Nat
      BY <1>1, CopiesFinite
    <3> QED BY <1>2, <1>9, <1>11, <3>1, <3>2, <3>3, <3>4
  <2> QED BY <2>1 DEF PipeCounted
<1>16. StoresCounted(v)
  BY <1>1, <1>11, StoresSame
<1>17. Sound(v) /\ Between(v)
  BY <1>11, <1>12, <1>13, <1>14, <1>15, <1>16, HeldEach, RestSound
<1>18. ASSUME NEW w \in Warps, Drained(u, w) PROVE Drained(v, w)
  BY <1>11, <1>18 DEF Drained
<1> QED BY <1>11, <1>17, <1>18 DEF Keeps

-----------------------------------------------------------------------------
(* The response FIFO.                                                      *)

LEMMA AcksFinite ==
  ASSUME NEW S, NEW f \in Seq(S), NEW w
  PROVE  IsFiniteSet(AcksOf(f, w)) /\ Cardinality(AcksOf(f, w)) \in Nat
<1>1. PICK n \in Nat : DOMAIN f = 1 .. n
  OBVIOUS
<1>2. AcksOf(f, w) \in SUBSET (1 .. n) /\ IsFiniteSet(1 .. n)
  BY <1>1, FS_Interval DEF AcksOf
<1> QED BY <1>2, FS_Subset, FS_CardinalityType

AckAt(m, w) == IF m.path = "ack" /\ m.warp = w THEN 1 ELSE 0

LEMMA AcksTail ==
  ASSUME NEW S, NEW f \in Seq(S), f # <<>>, NEW w
  PROVE  Cardinality(AcksOf(Tail(f), w)) = Cardinality(AcksOf(f, w)) - AckAt(Head(f), w)
<1>1. PICK g : g = Tail(f)
  OBVIOUS
<1>2. PICK n \in Nat : n = Len(f) /\ n > 0 /\ DOMAIN f = 1 .. n
  OBVIOUS
<1>3. g \in Seq(S) /\ DOMAIN g = 1 .. n - 1 /\ Head(f) = f[1]
  BY <1>1, <1>2
<1>4. \A i \in 1 .. n - 1 : i \in Nat /\ i + 1 \in 1 .. n /\ g[i] = f[i + 1]
  BY <1>1, <1>2
<1>5. PICK U : U = AcksOf(g, w)
  OBVIOUS
<1>6. PICK V : V = AcksOf(f, w) \ {1}
  OBVIOUS
<1>7. PICK h : h = [i \in U |-> i + 1]
  OBVIOUS
<1>8. U \subseteq 1 .. n - 1 /\ V \subseteq 1 .. n
  BY <1>2, <1>3, <1>5, <1>6 DEF AcksOf
<1>9. h \in [U -> V]
  <2>1. ASSUME NEW i \in U PROVE i + 1 \in V
    BY <1>2, <1>3, <1>4, <1>5, <1>6, <1>8 DEF AcksOf
  <2> QED BY <1>7, <2>1
<1>10. \A i, j \in U : h[i] = h[j] => i = j
  BY <1>7, <1>8
<1>11. ASSUME NEW j \in V PROVE \E i \in U : h[i] = j
  <2>1. j \in 1 .. n /\ j # 1
    BY <1>6, <1>8
  <2>2. j - 1 \in 1 .. n - 1 /\ (j - 1) + 1 = j
    BY <2>1
  <2>3. j - 1 \in U
    BY <1>3, <1>4, <1>5, <1>6, <2>2 DEF AcksOf
  <2> QED BY <1>7, <2>2, <2>3
<1>12. h \in Bijection(U, V)
  <2>1. h \in Injection(U, V)
    BY <1>9, <1>10 DEF Injection, IsInjective
  <2>2. h \in Surjection(U, V)
    BY <1>9, <1>11 DEF Surjection
  <2> QED BY <2>1, <2>2 DEF Bijection
<1>13. IsFiniteSet(U) /\ IsFiniteSet(AcksOf(f, w)) /\ Cardinality(AcksOf(f, w)) \in Nat
  BY <1>3, <1>5, AcksFinite
<1>14. Cardinality(U) = Cardinality(V)
  BY <1>12, <1>13, FS_Bijection DEF ExistsBijection
<1>15. Cardinality(V) = Cardinality(AcksOf(f, w)) - AckAt(Head(f), w)
  <2>1. CASE f[1].path = "ack" /\ f[1].warp = w
    <3>1. 1 \in AcksOf(f, w)
      BY <1>2, <2>1 DEF AcksOf
    <3>2. Cardinality(V) = Cardinality(AcksOf(f, w)) - 1
      BY <1>6, <1>13, <3>1, FS_RemoveElement
    <3> QED BY <1>3, <2>1, <3>2 DEF AckAt
  <2>2. CASE ~ (f[1].path = "ack" /\ f[1].warp = w)
    <3>1. V = AcksOf(f, w)
      BY <1>6, <2>2 DEF AcksOf
    <3>2. AckAt(Head(f), w) = 0
      BY <1>3, <2>2 DEF AckAt
    <3> QED BY <1>13, <3>1, <3>2
  <2> QED BY <2>1, <2>2
<1> QED BY <1>1, <1>5, <1>14, <1>15

LEMMA AcksAppend ==
  ASSUME NEW S, NEW f \in Seq(S), NEW m \in S, NEW w
  PROVE  Cardinality(AcksOf(Append(f, m), w)) = Cardinality(AcksOf(f, w)) + AckAt(m, w)
<1>1. PICK g : g = Append(f, m)
  OBVIOUS
<1>2. PICK n \in Nat : n = Len(f) /\ DOMAIN f = 1 .. n
  OBVIOUS
<1>3. /\ DOMAIN g = 1 .. n + 1 /\ g[n + 1] = m /\ \A i \in 1 .. n : g[i] = f[i]
      /\ n + 1 \notin 1 .. n /\ n + 1 \in 1 .. n + 1 /\ 1 .. n + 1 = (1 .. n) \cup {n + 1}
  BY <1>1, <1>2
<1>4. IsFiniteSet(AcksOf(f, w)) /\ Cardinality(AcksOf(f, w)) \in Nat
  BY AcksFinite
<1>5. CASE m.path = "ack" /\ m.warp = w
  <2>1. AcksOf(g, w) = AcksOf(f, w) \cup {n + 1} /\ n + 1 \notin AcksOf(f, w)
    BY <1>2, <1>3, <1>5 DEF AcksOf
  <2>2. Cardinality(AcksOf(g, w)) = Cardinality(AcksOf(f, w)) + 1
    BY <1>4, <2>1, FS_AddElement
  <2> QED BY <1>1, <1>5, <2>2 DEF AckAt
<1>6. CASE ~ (m.path = "ack" /\ m.warp = w)
  <2>1. AcksOf(g, w) = AcksOf(f, w)
    BY <1>2, <1>3, <1>6 DEF AcksOf
  <2> QED BY <1>1, <1>4, <1>6, <2>1 DEF AckAt
<1> QED BY <1>5, <1>6

\* The front of the response FIFO is taken off.
LEMMA FifoTail ==
  ASSUME NEW u \in CoreRecords, Places(u), u.fifo # <<>>, NEW m, m = Head(u.fifo),
         NEW v \in CoreRecords, v.fifo = Tail(u.fifo), v.reads = u.reads
  PROVE  /\ m \in Accesses \cup Acks /\ (m.path # "ack" => m \in Accesses /\ m \in Requests(u))
         /\ Requests(v) = Requests(u) \ {m}
         /\ \A i, j \in DOMAIN v.fifo : v.fifo[i].path # "ack" /\ v.fifo[i] = v.fifo[j] => i = j
         /\ \A i \in DOMAIN v.fifo : v.fifo[i] \notin v.reads
<1>1. PICK f, g : f = u.fifo /\ g = v.fifo
  OBVIOUS
<1>2. f \in Seq(Accesses \cup Acks) /\ f # <<>> /\ g = Tail(f)
  BY <1>1, CoreFields
<1>3. PICK n \in Nat : n = Len(f) /\ n > 0 /\ DOMAIN f = 1 .. n
  BY <1>2
<1>4. /\ DOMAIN g = 1 .. n - 1 /\ m = f[1] /\ 1 \in DOMAIN f
      /\ \A i \in DOMAIN g : i + 1 \in DOMAIN f /\ i + 1 # 1 /\ g[i] = f[i + 1]
  BY <1>1, <1>2, <1>3
<1>5. \A i \in DOMAIN f : i # 1 => i - 1 \in DOMAIN g /\ g[i - 1] = f[i]
  <2>1. ASSUME NEW i \in DOMAIN f, i # 1 PROVE i - 1 \in DOMAIN g /\ g[i - 1] = f[i]
    <3>1. i - 1 \in 1 .. n - 1 /\ (i - 1) + 1 = i
      BY <1>3, <2>1
    <3> QED BY <1>4, <3>1
  <2> QED BY <2>1
<1>6. \A i \in DOMAIN f : f[i] \in Accesses \cup Acks
  BY <1>2
<1>7. \A a \in Acks : a.path = "ack"
  BY DEF Acks
<1>8. m \in Accesses \cup Acks /\ (m.path # "ack" => m \in Accesses /\ m \in Requests(u))
  BY <1>1, <1>4, <1>6, <1>7, RequestsAre
<1>9. \A i, j \in DOMAIN f : f[i].path # "ack" /\ f[i] = f[j] => i = j
  BY <1>1 DEF Places
<1>10. \A i \in DOMAIN f : f[i] \notin u.reads
  BY <1>1 DEF Places
<1>11. ASSUME NEW a PROVE a \in Requests(v) <=> a \in Requests(u) /\ a # m
  <2>1. a \in Requests(v) <=> a \in u.reads \/ \E i \in DOMAIN g : g[i] = a /\ a.path # "ack"
    BY <1>1, RequestsAre
  <2>2. a \in Requests(u) <=> a \in u.reads \/ \E i \in DOMAIN f : f[i] = a /\ a.path # "ack"
    BY <1>1, RequestsAre
  <2>3. ASSUME NEW i \in DOMAIN g, g[i] = a, a.path # "ack"
        PROVE  a # m /\ \E j \in DOMAIN f : f[j] = a
    BY <1>4, <1>9, <2>3
  <2>4. ASSUME NEW i \in DOMAIN f, f[i] = a, a # m PROVE \E j \in DOMAIN g : g[j] = a
    BY <1>4, <1>5, <2>4
  <2>5. m \notin u.reads
    BY <1>4, <1>10
  <2> QED BY <2>1, <2>2, <2>3, <2>4, <2>5
<1>12. Requests(v) = Requests(u) \ {m}
  BY <1>11
<1>13. \A i, j \in DOMAIN g : g[i].path # "ack" /\ g[i] = g[j] => i = j
  <2> SUFFICES ASSUME NEW i \in DOMAIN g, NEW j \in DOMAIN g, g[i].path # "ack", g[i] = g[j]
               PROVE  i = j
    OBVIOUS
  <2>1. i + 1 = j + 1
    BY <1>4, <1>9
  <2> QED BY <1>4, <2>1
<1>14. \A i \in DOMAIN g : g[i] \notin u.reads
  BY <1>4, <1>10
<1> QED BY <1>1, <1>8, <1>12, <1>13, <1>14

\* What Respond leaves alone.
RespondKept(u, v) ==
  /\ v \in CoreRecords
  /\ v.collecting = u.collecting /\ v.dispatch = u.dispatch /\ v.pipe = u.pipe
  /\ v.nextWb = u.nextWb /\ v.pending = u.pending /\ v.reserved = u.reserved
  /\ v.inPipe = u.inPipe /\ v.reads = u.reads /\ v.writes = u.writes
  /\ v.fifo = Tail(u.fifo)

Responded(u, v, m) ==
  \/ /\ m.path = "ack" /\ v.stores = [u.stores EXCEPT ![m.warp] = @ - 1]
     /\ v.nextGlobal = u.nextGlobal /\ v.tex = u.tex
     /\ v.waiting = u.waiting /\ v.ready = u.ready
  \/ /\ m.path = "bypass" /\ u.nextGlobal = None /\ v.nextGlobal = m
     /\ v.stores = u.stores /\ v.tex = u.tex
     /\ v.waiting = u.waiting /\ v.ready = u.ready
  \/ /\ m.path = "tex"
     /\ v.tex = [i \in DOMAIN u.tex |-> IF u.tex[i].access = m
                                          THEN [u.tex[i] EXCEPT !.here = TRUE] ELSE u.tex[i]]
     /\ v.stores = u.stores /\ v.nextGlobal = u.nextGlobal
     /\ v.waiting = u.waiting /\ v.ready = u.ready
  \/ /\ m.path \in Cached
     /\ v.waiting = u.waiting \ Awaiting(u, m) /\ v.ready = u.ready \cup Awaiting(u, m)
     /\ v.stores = u.stores /\ v.tex = u.tex /\ v.nextGlobal = u.nextGlobal

LEMMA RespondFields ==
  ASSUME NEW u \in CoreRecords, Places(u), NEW free, NEW v, v = Respond(u, free)
  PROVE  v = u \/ (u.fifo # <<>> /\ RespondKept(u, v) /\ Responded(u, v, Head(u.fifo)))
<1>1. CASE u.fifo = <<>>
  BY <1>1 DEF Respond
<1>2. CASE u.fifo # <<>>
  <2>1. PICK m, t : m = Head(u.fifo) /\ t = Tail(u.fifo)
    OBVIOUS
  <2>2. u.fifo \in Seq(Accesses \cup Acks)
    BY CoreFields
  <2>3. m \in Accesses \cup Acks /\ t \in Seq(Accesses \cup Acks)
    BY <1>2, <2>1, <2>2
  <2>4. PICK rest : rest = [u EXCEPT !.fifo = t]
    OBVIOUS
  <2> DEFINE acked == [rest EXCEPT !.stores[m.warp] = @ - 1]
             bypassed == [rest EXCEPT !.nextGlobal = m]
             fetched == [rest EXCEPT !.tex = [i \in DOMAIN @ |->
                           IF @[i].access = m THEN [@[i] EXCEPT !.here = TRUE] ELSE @[i]]]
             filled == [rest EXCEPT !.waiting = @ \ Awaiting(u, m),
                                    !.ready = @ \cup Awaiting(u, m)]
  <2>5. v = CASE m.path = "ack" -> acked
            [] m.path = "bypass" -> IF u.nextGlobal = None THEN bypassed ELSE u
            [] m.path = "tex" /\ free -> fetched
            [] m.path \in Cached /\ free -> filled
            [] OTHER -> u
    BY <1>2, <2>1, <2>4 DEF Respond
  <2> HIDE DEF acked, bypassed, fetched, filled
  <2>6. CASE m.path = "ack"
    <3>1. v = acked
      BY <2>5, <2>6 DEF Cached
    <3>2. PICK f : f = [u.stores EXCEPT ![m.warp] = @ - 1]
      OBVIOUS
    <3>3. m.warp \in Warps
      BY <2>3, <2>6, AccessAnswered DEF Acks
    <3>4. f \in [Warps -> Int]
      BY <3>2, <3>3, CoreFields
    <3>5. v = [u EXCEPT !.fifo = t, !.stores = f]
      BY <2>4, <3>1, <3>2 DEF acked
    <3>6. v \in CoreRecords
      BY <2>3, <3>4, <3>5 DEF CoreRecords
    <3>7. RespondKept(u, v) /\ v.stores = f /\ v.nextGlobal = u.nextGlobal /\ v.tex = u.tex
          /\ v.waiting = u.waiting /\ v.ready = u.ready
      BY <2>1, <3>5, <3>6 DEF CoreRecords, RespondKept
    <3> QED BY <1>2, <2>1, <2>6, <3>2, <3>7 DEF Responded
  <2>7. CASE m.path = "bypass" /\ u.nextGlobal = None
    <3>1. v = bypassed
      BY <2>5, <2>7 DEF Cached
    <3>2. v = [u EXCEPT !.fifo = t, !.nextGlobal = m]
      BY <2>4, <3>1 DEF bypassed
    <3>3. m \in Accesses
      BY <2>3, <2>7 DEF Acks
    <3>4. v \in CoreRecords
      BY <2>3, <3>2, <3>3 DEF CoreRecords
    <3>5. RespondKept(u, v) /\ v.stores = u.stores /\ v.nextGlobal = m /\ v.tex = u.tex
          /\ v.waiting = u.waiting /\ v.ready = u.ready
      BY <2>1, <3>2, <3>4 DEF CoreRecords, RespondKept
    <3> QED BY <1>2, <2>1, <2>7, <3>5 DEF Responded
  <2>8. CASE m.path = "tex" /\ free
    <3>1. PICK x : x = [i \in DOMAIN u.tex |-> IF u.tex[i].access = m
                                          THEN [u.tex[i] EXCEPT !.here = TRUE] ELSE u.tex[i]]
      OBVIOUS
    <3>2. v = [u EXCEPT !.fifo = t, !.tex = x]
      <4>1. v = fetched
        BY <2>5, <2>8 DEF Cached
      <4>2. rest.tex = u.tex
        BY <2>4 DEF CoreRecords
      <4>3. fetched = [rest EXCEPT !.tex = x]
        BY <3>1, <4>2, Zenon DEF fetched
      <4> QED BY <2>4, <4>1, <4>3
    <3>3. x \in Seq(TexEntries)
      <4>1. PICK n \in Nat : DOMAIN u.tex = 1 .. n
        BY TexEntry
      <4>2. \A i \in 1 .. n : u.tex[i] \in TexEntries
        BY <4>1, CoreFields
      <4>3. \A e \in TexEntries : [e EXCEPT !.here = TRUE] \in TexEntries
        BY DEF TexEntries
      <4>4. x \in [1 .. n -> TexEntries]
        BY <3>1, <4>1, <4>2, <4>3
      <4> QED BY <4>4 DEF Seq
    <3>4. v \in CoreRecords
      BY <2>3, <3>2, <3>3 DEF CoreRecords
    <3>5. RespondKept(u, v) /\ v.stores = u.stores /\ v.nextGlobal = u.nextGlobal /\ v.tex = x
          /\ v.waiting = u.waiting /\ v.ready = u.ready
      BY <2>1, <3>2, <3>4 DEF CoreRecords, RespondKept
    <3> QED BY <1>2, <2>1, <2>8, <3>1, <3>5 DEF Responded
  <2>9. CASE m.path \in Cached /\ free
    <3>1. PICK A : A = Awaiting(u, m)
      OBVIOUS
    <3>2. PICK W, R : W = u.waiting \ A /\ R = u.ready \cup A
      OBVIOUS
    <3>3. W \subseteq Accesses /\ R \subseteq Accesses
      <4>1. A \subseteq u.waiting
        BY <3>1 DEF Awaiting
      <4> QED BY <3>2, <4>1, CoreFields
    <3>4. v = [u EXCEPT !.fifo = t, !.waiting = W, !.ready = R]
      <4>1. v = filled
        BY <2>5, <2>9 DEF Cached
      <4> QED BY <2>4, <3>1, <3>2, <4>1 DEF filled
    <3>5. v \in CoreRecords
      BY <2>3, <3>3, <3>4 DEF CoreRecords
    <3>6. RespondKept(u, v) /\ v.stores = u.stores /\ v.nextGlobal = u.nextGlobal /\ v.tex = u.tex
          /\ v.waiting = W /\ v.ready = R
      BY <2>1, <3>4, <3>5 DEF CoreRecords, RespondKept
    <3> QED BY <1>2, <2>1, <2>9, <3>1, <3>2, <3>6 DEF Responded
  <2>10. CASE /\ m.path # "ack" /\ ~ (m.path = "bypass" /\ u.nextGlobal = None)
              /\ ~ (m.path = "tex" /\ free) /\ ~ (m.path \in Cached /\ free)
    BY <2>5, <2>10
  <2> QED BY <2>6, <2>7, <2>8, <2>9, <2>10
<1> QED BY <1>1, <1>2

LEMMA RespondStores ==
  ASSUME NEW u \in CoreRecords, StoresCounted(u), u.fifo # <<>>, NEW v \in CoreRecords,
         v.fifo = Tail(u.fifo), v.writes = u.writes,
         \A w \in Warps : v.stores[w] = u.stores[w] - AckAt(Head(u.fifo), w)
  PROVE  StoresCounted(v)
<1>1. ASSUME NEW w \in Warps PROVE v.stores[w] = v.writes[w] + Cardinality(AcksOf(v.fifo, w))
  <2>1. PICK f : f = u.fifo
    OBVIOUS
  <2>2. f \in Seq(Accesses \cup Acks) /\ f # <<>>
    BY <2>1, CoreFields
  <2>3. Cardinality(AcksOf(Tail(f), w)) = Cardinality(AcksOf(f, w)) - AckAt(Head(f), w)
    BY <2>2, AcksTail
  <2>4. Cardinality(AcksOf(f, w)) \in Nat
    BY <2>2, AcksFinite
  <2>5. u.writes[w] \in Nat
    BY CoreFields
  <2>6. AckAt(Head(f), w) \in {0, 1}
    BY DEF AckAt
  <2>7. u.stores[w] = u.writes[w] + Cardinality(AcksOf(f, w))
    BY <2>1 DEF StoresCounted
  <2>8. v.stores[w] = u.stores[w] - AckAt(Head(f), w) /\ v.writes[w] = u.writes[w]
        /\ v.fifo = Tail(f)
    BY <2>1
  <2>9. PICK g, c, b : g = Tail(f) /\ c = Cardinality(AcksOf(f, w)) /\ b = Cardinality(AcksOf(g, w))
    OBVIOUS
  <2>10. v.fifo = g /\ b = c - AckAt(Head(f), w) /\ c \in Nat /\ u.stores[w] = u.writes[w] + c
    BY <2>3, <2>4, <2>7, <2>8, <2>9
  <2>11. v.stores[w] = v.writes[w] + b
    BY <2>5, <2>6, <2>8, <2>10
  <2> QED BY <2>9, <2>10, <2>11
<1> QED BY <1>1 DEF StoresCounted

\* An answer changes the place of accesses, not which are outstanding.
LEMMA RespondPlaces ==
  ASSUME NEW u \in CoreRecords, Kinds(u), Places(u), u.fifo # <<>>, NEW m, m = Head(u.fifo),
         NEW v, RespondKept(u, v), Responded(u, v, m)
  PROVE  Kinds(v) /\ Places(v) /\ Outstanding(v) = Outstanding(u)
<1>1. /\ m \in Accesses \cup Acks /\ (m.path # "ack" => m \in Accesses /\ m \in Requests(u))
      /\ Requests(v) = Requests(u) \ {m}
      /\ \A i, j \in DOMAIN v.fifo : v.fifo[i].path # "ack" /\ v.fifo[i] = v.fifo[j] => i = j
      /\ \A i \in DOMAIN v.fifo : v.fifo[i] \notin v.reads
  <2>1. v \in CoreRecords /\ v.fifo = Tail(u.fifo) /\ v.reads = u.reads
    BY DEF RespondKept
  <2> QED BY <2>1, FifoTail
<1>2. \A a \in Requests(u) : a \in Accesses /\ a.path # "ack" /\ a # None
  BY RequestsAre, AccessAnswered
<1>3. v \in CoreRecords /\ v.nextWb = u.nextWb
  BY DEF RespondKept
<1> DEFINE In(x, a) ==
      \/ a \in x.waiting \/ a \in x.ready \/ a \in Requests(x)
      \/ \E i \in DOMAIN x.tex : x.tex[i].access = a
      \/ a = x.nextGlobal /\ a # None
      \/ a = x.nextWb /\ a \in Accesses
<1>4. ASSUME Kinds(v), \A a : In(v, a) <=> In(u, a) PROVE Outstanding(v) = Outstanding(u)
  <2>1. \A a : a \in Outstanding(v) <=> In(v, a)
    BY <1>3, <1>4, OutstandingIs
  <2>2. \A a : a \in Outstanding(u) <=> In(u, a)
    BY OutstandingIs
  <2> HIDE DEF In
  <2> QED BY <1>4, <2>1, <2>2
<1>5. CASE /\ m.path = "ack" /\ v.nextGlobal = u.nextGlobal /\ v.tex = u.tex
           /\ v.waiting = u.waiting /\ v.ready = u.ready
  <2>1. Kinds(v)
    BY <1>5 DEF Kinds, RespondKept
  <2>2. Requests(v) = Requests(u)
    BY <1>1, <1>2, <1>5
  <2>3. Outstanding(v) = Outstanding(u)
    BY <1>3, <1>4, <1>5, <2>1, <2>2
  <2>4. Places(v)
    BY <1>1, <1>3, <1>5, <2>2, <2>3 DEF Places
  <2> QED BY <2>1, <2>3, <2>4
<1>6. CASE /\ m.path = "bypass" /\ u.nextGlobal = None /\ v.nextGlobal = m
           /\ v.tex = u.tex /\ v.waiting = u.waiting /\ v.ready = u.ready
  <2>1. m \in Accesses /\ m \in Requests(u) /\ m # None
    BY <1>1, <1>2, <1>6
  <2>2. Kinds(v)
    BY <1>6 DEF Kinds, RespondKept
  <2>3. \A a : In(v, a) <=> In(u, a)
    BY <1>1, <1>3, <1>6, <2>1
  <2>4. Outstanding(v) = Outstanding(u)
    BY <1>4, <2>2, <2>3
  <2>5. \A a \in Requests(v) : a # v.nextGlobal /\ a # v.nextWb
    BY <1>1, <1>3, <1>6 DEF Places
  <2>6. v.nextWb # None => v.nextWb # v.nextGlobal
    BY <1>3, <1>6, <2>1 DEF Places
  <2>7. \A a \in Requests(v) : a \in Requests(u)
    BY <1>1
  <2> QED BY <1>1, <1>3, <1>6, <2>2, <2>4, <2>5, <2>6, <2>7 DEF Places
<1>7. CASE /\ m.path = "tex"
           /\ v.tex = [i \in DOMAIN u.tex |-> IF u.tex[i].access = m
                                          THEN [u.tex[i] EXCEPT !.here = TRUE] ELSE u.tex[i]]
           /\ v.nextGlobal = u.nextGlobal /\ v.waiting = u.waiting /\ v.ready = u.ready
  <2>1. m \in Accesses /\ m \in Requests(u) /\ m # None
    BY <1>1, <1>2, <1>7
  <2>2. /\ DOMAIN v.tex = DOMAIN u.tex
        /\ \A i \in DOMAIN u.tex : v.tex[i].access = u.tex[i].access
        /\ \A i \in DOMAIN u.tex : u.tex[i].access # m => v.tex[i].here = u.tex[i].here
    <3>1. \A i \in DOMAIN u.tex : u.tex[i] \in TexEntries
      BY CoreFields
    <3>2. \A e \in TexEntries : [e EXCEPT !.here = TRUE].access = e.access
      BY DEF TexEntries
    <3>3. \A i \in DOMAIN u.tex : v.tex[i] = IF u.tex[i].access = m
                                          THEN [u.tex[i] EXCEPT !.here = TRUE] ELSE u.tex[i]
      BY <1>7
    <3> QED BY <1>7, <3>1, <3>2, <3>3
  <2>3. Kinds(v)
    <3>1. \A i \in DOMAIN v.tex : v.tex[i].access.path = "tex"
      BY <2>2 DEF Kinds
    <3> QED BY <1>7, <3>1 DEF Kinds, RespondKept
  <2>4. \E i \in DOMAIN u.tex : u.tex[i].access = m
    BY <1>7, <2>1 DEF Places
  <2>5. \A a : In(v, a) <=> In(u, a)
    <3>1. \A a : (\E i \in DOMAIN v.tex : v.tex[i].access = a)
                   <=> \E i \in DOMAIN u.tex : u.tex[i].access = a
      BY <2>2
    <3>2. v.waiting = u.waiting /\ v.ready = u.ready /\ v.nextGlobal = u.nextGlobal
      BY <1>7
    <3> HIDE <1>7
    <3> QED BY <1>1, <1>3, <2>4, <3>1, <3>2
  <2>6. Outstanding(v) = Outstanding(u)
    BY <1>4, <2>3, <2>5
  <2>7. ASSUME NEW a \in Requests(v), a.path = "tex"
        PROVE  \E i \in DOMAIN v.tex : v.tex[i].access = a /\ ~v.tex[i].here
    <3>1. a \in Requests(u) /\ a # m
      BY <1>1, <2>7
    <3>2. PICK i \in DOMAIN u.tex : u.tex[i].access = a /\ ~u.tex[i].here
      BY <2>7, <3>1 DEF Places
    <3> HIDE <1>7
    <3> QED BY <2>2, <3>1, <3>2
  <2>8. \A i, j \in DOMAIN v.tex : v.tex[i].access = v.tex[j].access => i = j
    <3> HIDE <1>7
    <3> QED BY <2>2 DEF Places
  <2>9. v.nextWb # None => \A i \in DOMAIN v.tex : v.tex[i].access # v.nextWb
    <3> HIDE <1>7
    <3> QED BY <1>3, <2>2 DEF Places
  <2>10. \A a \in Requests(v) : a \in Requests(u)
    BY <1>1
  <2>11. v.waiting = u.waiting /\ v.ready = u.ready /\ v.nextGlobal = u.nextGlobal
    BY <1>7
  <2> HIDE <1>7
  <2> QED BY <1>1, <1>3, <2>3, <2>6, <2>7, <2>8, <2>9, <2>10, <2>11 DEF Places
<1>8. CASE /\ m.path \in Cached
           /\ v.waiting = u.waiting \ Awaiting(u, m) /\ v.ready = u.ready \cup Awaiting(u, m)
           /\ v.tex = u.tex /\ v.nextGlobal = u.nextGlobal
  <2>1. m \in Accesses /\ m \in Requests(u) /\ m # None /\ m \in u.waiting
    BY <1>1, <1>2, <1>8 DEF Places, Cached
  <2>2. PICK A : A = Awaiting(u, m)
    OBVIOUS
  <2>3. A \subseteq u.waiting /\ \A b \in A : SameCache(b.path, m.path) /\ b.block = m.block
    BY <2>2 DEF Awaiting
  <2>4. v.waiting = u.waiting \ A /\ v.ready = u.ready \cup A
    BY <1>8, <2>2
  <2> HIDE <2>2
  <2>5. Kinds(v)
    BY <1>8, <2>3, <2>4 DEF Kinds, RespondKept
  <2>6. \A a : In(v, a) <=> In(u, a)
    BY <1>1, <1>3, <1>8, <2>1, <2>3, <2>4
  <2>7. Outstanding(v) = Outstanding(u)
    BY <1>4, <2>5, <2>6
  <2>8. ASSUME NEW a \in Requests(v), a.path \in Cached PROVE a \in v.waiting
    <3>1. a \in Requests(u) /\ a # m
      BY <1>1, <2>8
    <3>2. a \in u.waiting
      BY <2>8, <3>1 DEF Places
    <3>3. a \notin A
      BY <1>8, <2>1, <2>3, <2>8, <3>1 DEF Places
    <3> QED BY <2>4, <3>2, <3>3
  <2>9. \A a \in Requests(v) : a \in Requests(u)
    BY <1>1
  <2>10. v.waiting \cap v.ready = {}
    BY <2>3, <2>4 DEF Places
  <2>11. v.nextWb # None => v.nextWb \notin v.waiting \cup v.ready
    BY <1>3, <2>3, <2>4 DEF Places
  <2>12. v.tex = u.tex /\ v.nextGlobal = u.nextGlobal
    BY <1>8
  <2> HIDE <1>8
  <2> QED BY <1>1, <1>3, <2>5, <2>7, <2>8, <2>9, <2>10, <2>11, <2>12 DEF Places
<1> QED BY <1>5, <1>6, <1>7, <1>8 DEF Responded

LEMMA RespondKeeps ==
  ASSUME NEW u, Sound(u), Between(u), NEW free, NEW v, v = Respond(u, free)
  PROVE  Keeps(u, v) /\ Between(v) /\ v.dispatch = u.dispatch
<1>1. u \in CoreRecords /\ Kinds(u) /\ Places(u) /\ Held(u) /\ StoresCounted(u) /\ PipeCounted(u)
  BY DEF Sound
<1>2. CASE v = u
  BY <1>2 DEF Keeps
<1>3. CASE u.fifo # <<>> /\ RespondKept(u, v) /\ Responded(u, v, Head(u.fifo))
  <2>1. PICK m : m = Head(u.fifo)
    OBVIOUS
  <2>2. Kinds(v) /\ Places(v) /\ Outstanding(v) = Outstanding(u)
    BY <1>1, <1>3, <2>1, RespondPlaces
  <2>3. v \in CoreRecords
    BY <1>3 DEF RespondKept
  <2>4. Held(v) /\ PipeCounted(v)
    BY <1>1, <1>3 DEF RespondKept, Held, PipeCounted
  <2>5. \A w \in Warps : v.stores[w] = u.stores[w] - AckAt(m, w)
    <3>1. u.stores \in [Warps -> Int]
      BY <1>1, CoreFields
    <3>2. \/ m.path = "ack" /\ v.stores = [u.stores EXCEPT ![m.warp] = @ - 1]
          \/ m.path # "ack" /\ v.stores = u.stores
      <4>1. Responded(u, v, m)
        BY <1>3, <2>1
      <4>2. m.path = "ack" => m.path # "bypass" /\ m.path # "tex" /\ m.path \notin Cached
        BY DEF Cached
      <4>3. \/ m.path = "ack" /\ v.stores = [u.stores EXCEPT ![m.warp] = @ - 1]
            \/ m.path = "bypass" /\ v.stores = u.stores
            \/ m.path = "tex" /\ v.stores = u.stores
            \/ m.path \in Cached /\ v.stores = u.stores
        BY <4>1, Zenon DEF Responded
      <4> QED BY <4>2, <4>3
    <3>3. CASE m.path = "ack" /\ v.stores = [u.stores EXCEPT ![m.warp] = @ - 1]
      BY <3>1, <3>3 DEF AckAt
    <3>4. CASE m.path # "ack" /\ v.stores = u.stores
      BY <3>1, <3>4 DEF AckAt
    <3> QED BY <3>2, <3>3, <3>4
  <2>6. StoresCounted(v)
    BY <1>1, <1>3, <2>1, <2>3, <2>5, RespondStores DEF RespondKept
  <2>7. v.dispatch = u.dispatch /\ v.pending = u.pending /\ v.reserved = u.reserved
        /\ v.inPipe = u.inPipe
    BY <1>3 DEF RespondKept
  <2>8. Sound(v) /\ Between(v)
    BY <2>2, <2>3, <2>4, <2>6, <2>7, RestSound
  <2>9. ASSUME NEW w \in Warps, Drained(u, w) PROVE Drained(v, w)
    <3>1. v.inPipe[w] <= u.inPipe[w] /\ v.stores[w] <= u.stores[w]
      <4>1. u.stores[w] \in Int /\ u.inPipe[w] \in Int /\ AckAt(m, w) \in {0, 1}
        BY <1>1, CoreFields DEF AckAt
      <4> QED BY <2>5, <2>7, <4>1
    <3> QED BY <2>7, <2>8, <2>9, <3>1, DrainedKept
  <2> QED BY <2>7, <2>8, <2>9 DEF Keeps
<1>4. v = u \/ (u.fifo # <<>> /\ RespondKept(u, v) /\ Responded(u, v, Head(u.fifo)))
  BY <1>1, RespondFields
<1> QED BY <1>2, <1>3, <1>4

-----------------------------------------------------------------------------
(* The present access of the instruction in m_dispatch_reg.                *)

\* The instruction without it.
Without(d, e) == Same(d, e) /\ e.blocks = Front(d.blocks) /\ Legal(e)

\* What all accesses leave alone.
Pops(u, v) ==
  /\ v \in CoreRecords /\ Without(u.dispatch, v.dispatch)
  /\ v.collecting = u.collecting /\ v.pipe = u.pipe /\ v.fifo = u.fifo
  /\ v.nextGlobal = u.nextGlobal /\ v.nextWb = u.nextWb
  /\ v.reserved = u.reserved /\ v.inPipe = u.inPipe

LEMMA PoppedIs ==
  ASSUME NEW u \in CoreRecords, Kinds(u), u.dispatch # None, u.dispatch.blocks # <<>>
  PROVE  /\ Pops(u, Popped(u))
         /\ Popped(u).pending = u.pending /\ Popped(u).waiting = u.waiting
         /\ Popped(u).ready = u.ready /\ Popped(u).tex = u.tex /\ Popped(u).reads = u.reads
         /\ Popped(u).stores = u.stores /\ Popped(u).writes = u.writes
<1>1. PICK d : d = u.dispatch
  OBVIOUS
<1>2. Legal(d) /\ d \in Instructions /\ d.blocks # <<>>
  BY <1>1 DEF Kinds, Legal
<1>3. PICK f \in Seq(Blocks) : f = Front(d.blocks)
  BY <1>2, FrontBlocks
<1>4. IsInjective(f)
  BY <1>2, <1>3, FrontBlocks
<1>5. PICK e : e = [warp |-> d.warp, reg |-> d.reg, path |-> d.path, store |-> d.store,
                    blocks |-> f, fired |-> FALSE]
  OBVIOUS
<1>6. e \in Instructions
  BY <1>2, <1>3, <1>5 DEF Instructions
<1>7. Without(d, e)
  <2>1. d.path # "shared"
    BY <1>2 DEF Legal
  <2>2. Legal(e)
    BY <1>2, <1>4, <1>5, <1>6, <2>1 DEF Legal
  <2> QED BY <1>2, <1>3, <1>5, <1>6, <2>2 DEF Without, Same
<1>8. Popped(u) = [u EXCEPT !.dispatch = e]
  <2>1. [[d EXCEPT !.blocks = f] EXCEPT !.fired = FALSE] = e
    <3>1. d = [warp |-> d.warp, reg |-> d.reg, path |-> d.path, store |-> d.store,
               blocks |-> d.blocks, fired |-> d.fired]
      BY <1>2 DEF Instructions
    <3>2. PICK a, b, c, g, h, i : /\ a = d.warp /\ b = d.reg /\ c = d.path /\ g = d.store
                                  /\ h = d.blocks /\ i = d.fired
      OBVIOUS
    <3>3. d = [warp |-> a, reg |-> b, path |-> c, store |-> g, blocks |-> h, fired |-> i]
      BY <3>1, <3>2
    <3>4. PICK x : x = [d EXCEPT !.blocks = f]
      OBVIOUS
    <3>5. x = [warp |-> a, reg |-> b, path |-> c, store |-> g, blocks |-> f, fired |-> i]
      BY <3>3, <3>4
    <3>6. \A y : [x EXCEPT !.fired = y]
            = [warp |-> a, reg |-> b, path |-> c, store |-> g, blocks |-> f, fired |-> y]
      BY <3>5
    <3>7. [x EXCEPT !.fired = FALSE]
            = [warp |-> a, reg |-> b, path |-> c, store |-> g, blocks |-> f, fired |-> FALSE]
      BY <3>6, Zenon
    <3> QED BY <1>5, <3>2, <3>4, <3>7
  <2>2. [u EXCEPT !.dispatch.blocks = Front(@)] = [u EXCEPT !.dispatch = [d EXCEPT !.blocks = f]]
    BY <1>1, <1>3 DEF CoreRecords
  <2>3. Popped(u) = [[u EXCEPT !.dispatch.blocks = Front(@)] EXCEPT !.dispatch.fired = FALSE]
    BY Zenon DEF Popped
  <2> QED BY <2>1, <2>2, <2>3 DEF CoreRecords
<1>9. PICK v : v = Popped(u)
  OBVIOUS
<1>10. v = [u EXCEPT !.dispatch = e]
  BY <1>8, <1>9
<1>11. v \in CoreRecords /\ v.dispatch = e
  BY <1>6, <1>10 DEF CoreRecords
<1>12. /\ v.collecting = u.collecting /\ v.pipe = u.pipe /\ v.fifo = u.fifo
       /\ v.nextGlobal = u.nextGlobal /\ v.nextWb = u.nextWb
       /\ v.reserved = u.reserved /\ v.inPipe = u.inPipe
       /\ v.pending = u.pending /\ v.waiting = u.waiting
       /\ v.ready = u.ready /\ v.tex = u.tex /\ v.reads = u.reads
       /\ v.stores = u.stores /\ v.writes = u.writes
  BY <1>10 DEF CoreRecords
<1>13. Pops(u, v)
  BY <1>1, <1>7, <1>11, <1>12 DEF Pops
<1> QED BY <1>9, <1>12, <1>13

\* The present access is not outstanding yet.
LEMMA PresentAccess ==
  ASSUME NEW u, Sound(u), u.dispatch # None, u.dispatch.blocks # <<>>, ~ u.dispatch.store,
         NEW a, a = AccessOf(u.dispatch)
  PROVE  /\ Answered(u.dispatch) /\ a \in Accesses /\ a.path = u.dispatch.path
         /\ Key(a) = Key(u.dispatch) /\ a \notin Outstanding(u) /\ a # None
         /\ a.block = Last(u.dispatch.blocks)
<1>1. PICK d : d = u.dispatch
  OBVIOUS
<1>2. Legal(d) /\ d \in Instructions /\ d.blocks # <<>> /\ ~ d.store /\ d # None
  BY <1>1 DEF Sound, Kinds, Legal
<1>3. d.path # "shared" /\ d.path \in Paths /\ d.warp \in Warps /\ d.reg \in Regs
  BY <1>2 DEF Legal, Instructions
<1>4. Answered(d)
  BY <1>2, <1>3, InstructionAnswered
<1>5. PICK b : b = Last(d.blocks)
  OBVIOUS
<1>6. b \in Blocks /\ b \in ToSet(d.blocks)
  BY <1>2, <1>5, FrontBlocks
<1>7. a = [path |-> d.path, warp |-> d.warp, reg |-> d.reg, block |-> b]
  BY <1>1, <1>5 DEF AccessOf
<1>8. a \in Accesses /\ a.path = d.path /\ a.block = b
  BY <1>3, <1>6, <1>7 DEF Accesses
<1>9. Key(a) = Key(d)
  BY <1>7 DEF Key
<1>10. a \notin Outstanding(u)
  BY <1>1, <1>2, <1>4, <1>6, <1>8, <1>9 DEF Sound, Ahead
<1> QED BY <1>1, <1>4, <1>5, <1>8, <1>9, <1>10, NoneIsNone

LEMMA PopsKeepHeld ==
  ASSUME NEW u, Held(u), PipeCounted(u), NEW v, Pops(u, v), DOMAIN v.pending = DOMAIN u.pending
  PROVE  Held(v) /\ PipeCounted(v)
<1>1. \A k : HoldsShared(v.dispatch, k) = HoldsShared(u.dispatch, k)
  BY SameIs DEF Pops, Without
<1>2. \A w : Named(v.dispatch, w) = Named(u.dispatch, w)
  BY SameIs DEF Pops, Without
<1>3. Held(v)
  BY <1>1 DEF Pops, Held
<1>4. PipeCounted(v)
  BY <1>2 DEF Pops, PipeCounted
<1> QED BY <1>3, <1>4

\* The access joins those that are outstanding.
LEMMA SentSound ==
  ASSUME NEW u, Sound(u), u.dispatch # None, u.dispatch.blocks # <<>>, ~ u.dispatch.store,
         NEW a, a = AccessOf(u.dispatch), NEW v, Pops(u, v), v.pending = u.pending,
         v.stores = u.stores, v.writes = u.writes, Kinds(v), Places(v),
         Outstanding(v) = Outstanding(u) \cup {a}
  PROVE  Keeps(u, v)
<1>1. PICK d, e, out : d = u.dispatch /\ e = v.dispatch /\ out = Outstanding(u)
  OBVIOUS
<1>2. /\ Legal(d) /\ d.blocks # <<>> /\ Matches(u.pending, out, d) /\ Ahead(out, d)
      /\ IsFiniteSet(out) /\ Held(u) /\ PipeCounted(u) /\ StoresCounted(u)
  BY <1>1 DEF Sound, Kinds, Places
<1>3. Same(d, e) /\ e.blocks = Front(d.blocks) /\ v \in CoreRecords /\ Legal(e)
  BY <1>1 DEF Pops, Without
<1>4. Answered(d) /\ Key(a) = Key(d) /\ a \notin out /\ a.block = Last(d.blocks) /\ d # None
  BY <1>1, PresentAccess
<1>5. Matches(u.pending, out \cup {a}, e)
  BY <1>2, <1>3, <1>4, MatchesSent
<1>6. Ahead(out \cup {a}, e)
  <2>1. ToSet(e.blocks) \subseteq ToSet(d.blocks) /\ Last(d.blocks) \notin ToSet(e.blocks)
    BY <1>2, <1>3, FrontBlocks
  <2>2. Key(e) = Key(d)
    BY <1>3, SameIs
  <2> QED BY <1>2, <1>4, <2>1, <2>2 DEF Ahead
<1>7. Held(v) /\ PipeCounted(v)
  BY <1>2, PopsKeepHeld
<1>8. StoresCounted(v)
  BY <1>2, StoresSame DEF Pops
<1>9. Sound(v)
  BY <1>1, <1>3, <1>5, <1>6, <1>7, <1>8 DEF Sound
<1>10. \A w \in Warps : Drained(u, w) => Drained(v, w)
  BY DEF Drained, Pops
<1> QED BY <1>9, <1>10 DEF Keeps

LEMMA HitKeeps ==
  ASSUME NEW u, Sound(u), u.dispatch # None, u.dispatch.blocks # <<>>, ~ u.dispatch.store,
         NEW v, v = Hit(u)
  PROVE  Keeps(u, v) /\ Same(u.dispatch, v.dispatch) /\ v.dispatch.blocks = Front(u.dispatch.blocks)
<1>1. PICK d, e, out, p : d = u.dispatch /\ p = Popped(u) /\ e = p.dispatch /\ out = Outstanding(u)
  OBVIOUS
<1>2. /\ Legal(d) /\ d.blocks # <<>> /\ Matches(u.pending, out, d) /\ Ahead(out, d) /\ Kinds(u)
      /\ IsFiniteSet(out) /\ Held(u) /\ PipeCounted(u) /\ StoresCounted(u) /\ u \in CoreRecords
      /\ Places(u)
  BY <1>1 DEF Sound, Kinds, Places
<1>3. /\ Pops(u, p) /\ p.pending = u.pending /\ p.waiting = u.waiting
      /\ p.ready = u.ready /\ p.tex = u.tex /\ p.reads = u.reads
      /\ p.stores = u.stores /\ p.writes = u.writes
  BY <1>1, <1>2, PoppedIs
<1>4. Same(d, e) /\ e.blocks = Front(d.blocks) /\ Legal(e) /\ p \in CoreRecords
  BY <1>1, <1>3 DEF Pops, Without
<1>5. Answered(d) /\ d # None
  <2>1. PICK a : a = AccessOf(u.dispatch)
    OBVIOUS
  <2> QED BY <1>1, <2>1, PresentAccess
<1>6. PICK k, Q : k = Key(d) /\ Q = [u.pending EXCEPT ![k] = @ - 1]
  OBVIOUS
<1>7. v = [p EXCEPT !.pending = Q]
  BY <1>1, <1>3, <1>6 DEF Hit
<1>8. u.pending \in [DOMAIN u.pending -> Int] /\ DOMAIN u.pending \subseteq Keys
  BY <1>2, CoreFields, PendingsAre
<1>9. k \in DOMAIN u.pending /\ Matches(Q, out, e)
  BY <1>2, <1>4, <1>5, <1>6, <1>8, MatchesHit
<1>10. Q \in Pendings /\ DOMAIN Q = DOMAIN u.pending
  <2>1. DOMAIN Q = DOMAIN u.pending
    BY <1>6
  <2>2. \A j \in DOMAIN Q : Q[j] \in Int
    BY <1>6, <1>8
  <2>3. Q = [j \in DOMAIN Q |-> Q[j]]
    BY <1>6
  <2> QED BY <1>8, <2>1, <2>2, <2>3, PendingsAre
<1>11. /\ v \in CoreRecords /\ v.pending = Q /\ v.dispatch = e
       /\ v.collecting = p.collecting /\ v.pipe = p.pipe /\ v.fifo = p.fifo
       /\ v.nextGlobal = p.nextGlobal /\ v.nextWb = p.nextWb
       /\ v.reserved = p.reserved /\ v.inPipe = p.inPipe
       /\ v.waiting = p.waiting /\ v.ready = p.ready /\ v.tex = p.tex /\ v.reads = p.reads
       /\ v.stores = p.stores /\ v.writes = p.writes
  BY <1>1, <1>4, <1>7, <1>10 DEF CoreRecords
<1>12. Pops(u, v)
  BY <1>1, <1>3, <1>11 DEF Pops
<1>13. Kinds(v)
  BY <1>2, <1>4, <1>3, <1>11, <1>12 DEF Kinds, Pops
<1>14. Outstanding(v) = out /\ Places(v)
  BY <1>1, <1>2, <1>3, <1>11, <1>12, OutstandingSame DEF Pops
<1>15. Held(v) /\ PipeCounted(v)
  BY <1>2, <1>10, <1>11, <1>12, PopsKeepHeld
<1>16. StoresCounted(v)
  BY <1>2, <1>3, <1>11, <1>12, StoresSame DEF Pops
<1>17. Ahead(out, e)
  <2>1. ToSet(e.blocks) \subseteq ToSet(d.blocks)
    BY <1>2, <1>4, FrontBlocks
  <2>2. Key(e) = Key(d)
    BY <1>4, SameIs
  <2> QED BY <1>2, <1>5, <2>1, <2>2 DEF Ahead
<1>18. Sound(v)
  BY <1>9, <1>11, <1>13, <1>14, <1>15, <1>16, <1>17 DEF Sound
<1>19. \A w \in Warps : Drained(u, w) => Drained(v, w)
  BY <1>3, <1>11, <1>12 DEF Drained, Pops
<1> QED BY <1>1, <1>4, <1>11, <1>18, <1>19 DEF Keeps

\* Where the access is put.
JoinsMshr(u, v, a) ==
  /\ Pops(u, v) /\ v.pending = u.pending /\ v.tex = u.tex
  /\ v.stores = u.stores /\ v.writes = u.writes
  /\ \/ v.waiting = u.waiting \cup {a} /\ v.ready = u.ready /\ v.reads = u.reads
     \/ /\ Awaiting(u, a) = {}
        /\ v.waiting = u.waiting /\ v.ready = u.ready \cup {a} /\ v.reads = u.reads
     \/ /\ Awaiting(u, a) = {}
        /\ v.waiting = u.waiting \cup {a} /\ v.ready = u.ready /\ v.reads = u.reads \cup {a}

LEMMA MissFields ==
  ASSUME NEW u, Sound(u), u.dispatch # None, u.dispatch.blocks # <<>>, ~ u.dispatch.store,
         NEW a, a = AccessOf(u.dispatch), NEW v \in Miss(u)
  PROVE  v = u \/ JoinsMshr(u, v, a)
<1>1. u \in CoreRecords /\ Kinds(u)
  BY DEF Sound
<1>2. a \in Accesses
  BY PresentAccess
<1>3. PICK p : p = Popped(u)
  OBVIOUS
<1>4. /\ Pops(u, p) /\ p.pending = u.pending /\ p.waiting = u.waiting
      /\ p.ready = u.ready /\ p.tex = u.tex /\ p.reads = u.reads
      /\ p.stores = u.stores /\ p.writes = u.writes
  BY <1>1, <1>3, PoppedIs
<1>5. PICK W, R, Q : W = u.waiting \cup {a} /\ R = u.ready \cup {a} /\ Q = u.reads \cup {a}
  OBVIOUS
<1>6. W \subseteq Accesses /\ R \subseteq Accesses /\ Q \subseteq Accesses
  BY <1>1, <1>2, <1>5, CoreFields
<1>20. PICK L, M : L = p.lost \cup {l \in {Line(a)} : Allocates(a)} /\ M = p.lost \ {Line(a)}
  OBVIOUS
<1>21. L \subseteq Lines /\ M \subseteq Lines
  <2>1. p.lost \subseteq Lines
    BY <1>4 DEF Pops, CoreRecords
  <2> QED BY <1>2, <1>20, <2>1, LineOf
<1> DEFINE answering == \E b \in u.ready : SameCache(b.path, a.path) /\ b.block = a.block
           waits == [p EXCEPT !.waiting = @ \cup {a}]
           joined == IF Awaiting(u, a) # {} THEN waits
                     ELSE IF answering
                       THEN [p EXCEPT !.ready = @ \cup {a},
                               !.lost = @ \cup {l \in {Line(a)} : Allocates(a)}]
                     ELSE [waits EXCEPT !.reads = @ \cup {a}, !.lost = @ \ {Line(a)}]
<1>7. v = u \/ v = joined
  <2>1. PICK j : j = joined
    OBVIOUS
  <2>2. Miss(u) = {x \in {j} : ~SetFull(u, a)} \cup {x \in {u} : Refused(u, a)}
    BY <1>3, <2>1, Zenon DEF Miss
  <2> HIDE DEF joined
  <2> QED BY <2>1, <2>2
<1>8. waits = [p EXCEPT !.waiting = W]
  BY <1>4, <1>5
<1>9. ASSUME v = waits PROVE JoinsMshr(u, v, a)
  <2>1. v = [p EXCEPT !.waiting = W]
    BY <1>8, <1>9
  <2>2. p \in CoreRecords
    BY <1>4 DEF Pops
  <2>3. v \in CoreRecords /\ v.waiting = W
    BY <1>6, <2>1, <2>2 DEF CoreRecords
  <2>4. /\ v.dispatch = p.dispatch /\ v.collecting = p.collecting /\ v.pipe = p.pipe
        /\ v.fifo = p.fifo /\ v.nextGlobal = p.nextGlobal /\ v.nextWb = p.nextWb
        /\ v.reserved = p.reserved /\ v.inPipe = p.inPipe /\ v.pending = p.pending
        /\ v.ready = p.ready /\ v.tex = p.tex /\ v.reads = p.reads
        /\ v.stores = p.stores /\ v.writes = p.writes
    BY <2>1, <2>2 DEF CoreRecords
  <2> QED BY <1>4, <1>5, <2>3, <2>4 DEF JoinsMshr, Pops
<1>10. ASSUME v = [p EXCEPT !.ready = @ \cup {a},
                           !.lost = @ \cup {l \in {Line(a)} : Allocates(a)}],
              Awaiting(u, a) = {}
       PROVE  JoinsMshr(u, v, a)
  <2>1. v = [p EXCEPT !.ready = R, !.lost = L]
    BY <1>4, <1>5, <1>10, <1>20
  <2>2. p \in CoreRecords
    BY <1>4 DEF Pops
  <2>3. v \in CoreRecords /\ v.ready = R
    BY <1>6, <1>21, <2>1, <2>2 DEF CoreRecords
  <2>4. /\ v.dispatch = p.dispatch /\ v.collecting = p.collecting /\ v.pipe = p.pipe
        /\ v.fifo = p.fifo /\ v.nextGlobal = p.nextGlobal /\ v.nextWb = p.nextWb
        /\ v.reserved = p.reserved /\ v.inPipe = p.inPipe /\ v.pending = p.pending
        /\ v.waiting = p.waiting /\ v.tex = p.tex /\ v.reads = p.reads
        /\ v.stores = p.stores /\ v.writes = p.writes
    BY <2>1, <2>2 DEF CoreRecords
  <2> QED BY <1>4, <1>5, <1>10, <2>3, <2>4 DEF JoinsMshr, Pops
<1>11. ASSUME v = [waits EXCEPT !.reads = @ \cup {a}, !.lost = @ \ {Line(a)}],
              Awaiting(u, a) = {}
       PROVE  JoinsMshr(u, v, a)
  <2>1. p \in CoreRecords
    BY <1>4 DEF Pops
  <2>2. v = [p EXCEPT !.waiting = W, !.reads = Q, !.lost = M]
    <3>1. waits.reads = p.reads /\ waits.lost = p.lost
      BY <1>8, <2>1 DEF CoreRecords
    <3>2. v = [waits EXCEPT !.reads = Q, !.lost = M]
      BY <1>4, <1>5, <1>11, <1>20, <3>1
    <3> HIDE DEF waits
    <3> QED BY <1>8, <3>2
  <2>3. v \in CoreRecords /\ v.waiting = W /\ v.reads = Q
    BY <1>6, <1>21, <2>1, <2>2 DEF CoreRecords
  <2>4. /\ v.dispatch = p.dispatch /\ v.collecting = p.collecting /\ v.pipe = p.pipe
        /\ v.fifo = p.fifo /\ v.nextGlobal = p.nextGlobal /\ v.nextWb = p.nextWb
        /\ v.reserved = p.reserved /\ v.inPipe = p.inPipe /\ v.pending = p.pending
        /\ v.ready = p.ready /\ v.tex = p.tex
        /\ v.stores = p.stores /\ v.writes = p.writes
    BY <2>1, <2>2 DEF CoreRecords
  <2> QED BY <1>4, <1>5, <1>11, <2>3, <2>4 DEF JoinsMshr, Pops
<1> HIDE DEF waits, answering
<1> QED BY <1>7, <1>9, <1>10, <1>11

LEMMA JoinsMshrKeeps ==
  ASSUME NEW u, Sound(u), u.dispatch # None, u.dispatch.blocks # <<>>, ~ u.dispatch.store,
         u.dispatch.path \in Cached, NEW a, a = AccessOf(u.dispatch), NEW v, JoinsMshr(u, v, a)
  PROVE  Keeps(u, v)
<1>1. u \in CoreRecords /\ Kinds(u) /\ Places(u)
  BY DEF Sound
<1>2. a \in Accesses /\ a.path \in Cached /\ a \notin Outstanding(u) /\ a # None
  BY PresentAccess
<1>3. v \in CoreRecords /\ v.fifo = u.fifo /\ v.tex = u.tex /\ v.nextGlobal = u.nextGlobal
      /\ v.nextWb = u.nextWb /\ v.collecting = u.collecting /\ v.pipe = u.pipe
      /\ Legal(v.dispatch)
  BY DEF JoinsMshr, Pops, Without
<1>4. /\ a \notin u.waiting /\ a \notin u.ready /\ a \notin Requests(u)
      /\ \A i \in DOMAIN u.tex : u.tex[i].access # a
      /\ a # u.nextGlobal /\ a # u.nextWb
  BY <1>1, <1>2, OutstandingIs
<1>5. \/ v.waiting = u.waiting \cup {a} /\ v.ready = u.ready /\ Requests(v) = Requests(u)
      \/ /\ Awaiting(u, a) = {}
         /\ v.waiting = u.waiting /\ v.ready = u.ready \cup {a} /\ Requests(v) = Requests(u)
      \/ /\ Awaiting(u, a) = {}
         /\ v.waiting = u.waiting \cup {a} /\ v.ready = u.ready
         /\ Requests(v) = Requests(u) \cup {a}
  <2>1. v.reads = u.reads => Requests(v) = Requests(u)
    BY <1>3 DEF Requests
  <2>2. v.reads = u.reads \cup {a} => Requests(v) = Requests(u) \cup {a}
    BY <1>3 DEF Requests
  <2> QED BY <2>1, <2>2 DEF JoinsMshr
<1>6. v.reads = u.reads \/ v.reads = u.reads \cup {a}
  BY DEF JoinsMshr
<1>7. Kinds(v)
  <2>1. \A b \in v.waiting \cup v.ready : b.path \in Cached
    BY <1>1, <1>2, <1>5 DEF Kinds
  <2> QED BY <1>1, <1>3, <2>1 DEF Kinds
<1>8. Outstanding(v) = Outstanding(u) \cup {a}
  <2>1. ASSUME NEW b
        PROVE  b \in Outstanding(v) <=>
              \/ b \in v.waiting \/ b \in v.ready \/ b \in Requests(v)
              \/ \E i \in DOMAIN u.tex : u.tex[i].access = b
              \/ b = u.nextGlobal /\ b # None
              \/ b = u.nextWb /\ b \in Accesses
    BY <1>3, <1>7, OutstandingIs
  <2>2. ASSUME NEW b
        PROVE  b \in Outstanding(u) <=>
              \/ b \in u.waiting \/ b \in u.ready \/ b \in Requests(u)
              \/ \E i \in DOMAIN u.tex : u.tex[i].access = b
              \/ b = u.nextGlobal /\ b # None
              \/ b = u.nextWb /\ b \in Accesses
    BY <1>1, OutstandingIs
  <2>3. \A b : b \in Outstanding(v) <=> b \in Outstanding(u) \/ b = a
    BY <1>5, <2>1, <2>2
  <2> QED BY <2>3
<1>9. Places(v)
  <2>1. IsFiniteSet(Outstanding(v))
    BY <1>1, <1>8, FS_AddElement DEF Places
  <2>2. v.waiting \cap v.ready = {}
    BY <1>1, <1>4, <1>5 DEF Places
  <2>3. \A m \in Requests(v) :
       /\ m.path \in Cached => m \in v.waiting
       /\ m.path = "tex" => \E i \in DOMAIN u.tex : u.tex[i].access = m /\ ~u.tex[i].here
       /\ m # u.nextGlobal /\ m # u.nextWb
    <3>1. ASSUME NEW m \in Requests(u)
          PROVE  /\ m.path \in Cached => m \in v.waiting
                 /\ m.path = "tex" => \E i \in DOMAIN u.tex : u.tex[i].access = m /\ ~u.tex[i].here
                 /\ m # u.nextGlobal /\ m # u.nextWb
      <4>1. m.path \in Cached => m \in u.waiting
        BY <1>1 DEF Places
      <4>2. u.waiting \subseteq v.waiting
        BY <1>5
      <4> QED BY <1>1, <4>1, <4>2 DEF Places
    <3>2. a.path # "tex"
      BY <1>2 DEF Cached
    <3>3. a \in Requests(v) => a \in v.waiting
      BY <1>4, <1>5
    <3>4. \A m \in Requests(v) : m \in Requests(u) \/ m = a
      BY <1>5
    <3> QED BY <1>4, <3>1, <3>2, <3>3, <3>4
  <2>4. \A m, n \in Requests(v) :
       m.path \in Cached /\ n.path \in Cached /\ SameCache(m.path, n.path)
         /\ m.block = n.block => m = n
    <3>1. \A m, n \in Requests(u) :
       m.path \in Cached /\ n.path \in Cached /\ SameCache(m.path, n.path)
         /\ m.block = n.block => m = n
      BY <1>1 DEF Places
    <3>2. CASE Requests(v) = Requests(u)
      BY <3>1, <3>2
    <3>3. CASE Awaiting(u, a) = {} /\ Requests(v) = Requests(u) \cup {a}
      <4>1. ASSUME NEW m \in Requests(u), m.path \in Cached,
                   SameCache(m.path, a.path) \/ SameCache(a.path, m.path)
            PROVE  m.block # a.block
        <5>1. m \in u.waiting
          BY <1>1, <4>1 DEF Places
        <5>2. SameCache(m.path, a.path)
          BY <4>1 DEF SameCache
        <5> QED BY <3>3, <5>1, <5>2 DEF Awaiting
      <4> QED BY <3>1, <3>3, <4>1
    <3> QED BY <1>5, <3>2, <3>3
  <2>5. \A i \in DOMAIN u.fifo : u.fifo[i] \notin v.reads
    <3>1. ASSUME NEW i \in DOMAIN u.fifo PROVE u.fifo[i] # a
      <4>1. a.path # "ack"
        BY <1>2, AccessAnswered
      <4> QED BY <1>1, <1>4, <4>1, RequestsAre
    <3> QED BY <1>1, <1>6, <3>1 DEF Places
  <2>6. u.nextWb # None => u.nextWb \notin v.waiting \cup v.ready
    BY <1>1, <1>4, <1>5 DEF Places
  <2>7. /\ \A i, j \in DOMAIN v.fifo : v.fifo[i].path # "ack" /\ v.fifo[i] = v.fifo[j] => i = j
        /\ \A i, j \in DOMAIN v.tex : v.tex[i].access = v.tex[j].access => i = j
        /\ v.nextWb # None => /\ v.nextWb # v.nextGlobal
                              /\ \A i \in DOMAIN v.tex : v.tex[i].access # v.nextWb
    BY <1>1, <1>3 DEF Places
  <2> QED BY <1>3, <2>1, <2>2, <2>3, <2>4, <2>5, <2>6, <2>7 DEF Places
<1>10. Pops(u, v) /\ v.pending = u.pending /\ v.stores = u.stores /\ v.writes = u.writes
  BY DEF JoinsMshr
<1> QED BY <1>7, <1>8, <1>9, <1>10, SentSound

LEMMA MissKeeps ==
  ASSUME NEW u, Sound(u), u.dispatch # None, u.dispatch.blocks # <<>>, ~ u.dispatch.store,
         u.dispatch.path \in Cached, NEW v \in Miss(u)
  PROVE  Keeps(u, v) /\ (v = u \/ Without(u.dispatch, v.dispatch))
<1>1. PICK a : a = AccessOf(u.dispatch)
  OBVIOUS
<1>2. CASE v = u
  BY <1>2 DEF Keeps
<1>3. CASE JoinsMshr(u, v, a)
  <2>1. Keeps(u, v)
    BY <1>1, <1>3, JoinsMshrKeeps
  <2> QED BY <1>3, <2>1 DEF JoinsMshr, Pops
<1> QED BY <1>1, <1>2, <1>3, MissFields

\* A texture access waits in the fragment FIFO, with a request or without.
JoinsTex(u, v, a) ==
  /\ Pops(u, v) /\ v.pending = u.pending /\ v.waiting = u.waiting /\ v.ready = u.ready
  /\ v.stores = u.stores /\ v.writes = u.writes
  /\ \/ v.tex = Append(u.tex, [access |-> a, here |-> TRUE]) /\ v.reads = u.reads
     \/ v.tex = Append(u.tex, [access |-> a, here |-> FALSE]) /\ v.reads = u.reads \cup {a}

LEMMA TextureFields ==
  ASSUME NEW u, Sound(u), u.dispatch # None, u.dispatch.blocks # <<>>, ~ u.dispatch.store,
         NEW a, a = AccessOf(u.dispatch), NEW v \in Texture(u)
  PROVE  v = u \/ JoinsTex(u, v, a)
<1>1. u \in CoreRecords /\ Kinds(u)
  BY DEF Sound
<1>2. a \in Accesses
  BY PresentAccess
<1>3. PICK p : p = Popped(u)
  OBVIOUS
<1>4. /\ Pops(u, p) /\ p.pending = u.pending /\ p.waiting = u.waiting
      /\ p.ready = u.ready /\ p.tex = u.tex /\ p.reads = u.reads
      /\ p.stores = u.stores /\ p.writes = u.writes /\ p \in CoreRecords
  BY <1>1, <1>3, PoppedIs DEF Pops
<1>5. PICK here, away, Q : /\ here = [access |-> a, here |-> TRUE]
                           /\ away = [access |-> a, here |-> FALSE] /\ Q = u.reads \cup {a}
  OBVIOUS
<1>6. here \in TexEntries /\ away \in TexEntries /\ Q \subseteq Accesses
  BY <1>1, <1>2, <1>5, CoreFields DEF TexEntries
<1>7. PICK H, A : H = Append(u.tex, here) /\ A = Append(u.tex, away)
  OBVIOUS
<1>8. H \in Seq(TexEntries) /\ A \in Seq(TexEntries)
  <2>1. u.tex \in Seq(TexEntries)
    BY <1>1, CoreFields
  <2> QED BY <1>6, <1>7, <2>1
<1>9. \/ v = u
      \/ v = [p EXCEPT !.tex = Append(@, here)]
      \/ v = [[p EXCEPT !.tex = Append(@, away)] EXCEPT !.reads = @ \cup {a}]
  BY <1>3, <1>5, Zenon DEF Texture
<1>10. ASSUME v = [p EXCEPT !.tex = Append(@, here)] PROVE JoinsTex(u, v, a)
  <2>1. v = [p EXCEPT !.tex = H]
    BY <1>4, <1>7, <1>10
  <2>2. v \in CoreRecords /\ v.tex = H
    BY <1>4, <1>8, <2>1 DEF CoreRecords
  <2>3. /\ v.dispatch = p.dispatch /\ v.collecting = p.collecting /\ v.pipe = p.pipe
        /\ v.fifo = p.fifo /\ v.nextGlobal = p.nextGlobal /\ v.nextWb = p.nextWb
        /\ v.reserved = p.reserved /\ v.inPipe = p.inPipe /\ v.pending = p.pending
        /\ v.waiting = p.waiting /\ v.ready = p.ready /\ v.reads = p.reads
        /\ v.stores = p.stores /\ v.writes = p.writes
    BY <1>4, <2>1 DEF CoreRecords
  <2> QED BY <1>4, <1>5, <1>7, <2>2, <2>3 DEF JoinsTex, Pops
<1>11. ASSUME v = [[p EXCEPT !.tex = Append(@, away)] EXCEPT !.reads = @ \cup {a}]
       PROVE  JoinsTex(u, v, a)
  <2>1. v = [p EXCEPT !.tex = A, !.reads = Q]
    <3>1. PICK x : x = [p EXCEPT !.tex = A]
      OBVIOUS
    <3>2. v = [x EXCEPT !.reads = @ \cup {a}]
      BY <1>4, <1>7, <1>11, <3>1
    <3>3. x.reads = p.reads
      BY <1>4, <3>1 DEF CoreRecords
    <3>4. v = [x EXCEPT !.reads = Q]
      BY <1>4, <1>5, <3>2, <3>3
    <3> QED BY <3>1, <3>4
  <2>2. v \in CoreRecords /\ v.tex = A /\ v.reads = Q
    BY <1>4, <1>6, <1>8, <2>1 DEF CoreRecords
  <2>3. /\ v.dispatch = p.dispatch /\ v.collecting = p.collecting /\ v.pipe = p.pipe
        /\ v.fifo = p.fifo /\ v.nextGlobal = p.nextGlobal /\ v.nextWb = p.nextWb
        /\ v.reserved = p.reserved /\ v.inPipe = p.inPipe /\ v.pending = p.pending
        /\ v.waiting = p.waiting /\ v.ready = p.ready
        /\ v.stores = p.stores /\ v.writes = p.writes
    BY <1>4, <2>1 DEF CoreRecords
  <2> QED BY <1>4, <1>5, <1>7, <2>2, <2>3 DEF JoinsTex, Pops
<1> QED BY <1>9, <1>10, <1>11

LEMMA JoinsTexKeeps ==
  ASSUME NEW u, Sound(u), u.dispatch # None, u.dispatch.blocks # <<>>, ~ u.dispatch.store,
         u.dispatch.path = "tex", NEW a, a = AccessOf(u.dispatch), NEW v, JoinsTex(u, v, a)
  PROVE  Keeps(u, v)
<1>1. u \in CoreRecords /\ Kinds(u) /\ Places(u)
  BY DEF Sound
<1>2. a \in Accesses /\ a.path = "tex" /\ a \notin Outstanding(u) /\ a # None
  BY PresentAccess
<1>3. v \in CoreRecords /\ v.fifo = u.fifo /\ v.nextGlobal = u.nextGlobal
      /\ v.nextWb = u.nextWb /\ v.collecting = u.collecting /\ v.pipe = u.pipe
      /\ Legal(v.dispatch) /\ v.waiting = u.waiting /\ v.ready = u.ready
  BY DEF JoinsTex, Pops, Without
<1>4. /\ a \notin u.waiting /\ a \notin u.ready /\ a \notin Requests(u)
      /\ \A i \in DOMAIN u.tex : u.tex[i].access # a
      /\ a # u.nextGlobal /\ a # u.nextWb
  BY <1>1, <1>2, OutstandingIs
<1>5. \/ v.reads = u.reads /\ Requests(v) = Requests(u)
      \/ v.reads = u.reads \cup {a} /\ Requests(v) = Requests(u) \cup {a}
  <2>1. v.reads = u.reads \/ v.reads = u.reads \cup {a}
    BY DEF JoinsTex
  <2>2. v.reads = u.reads => Requests(v) = Requests(u)
    BY <1>3 DEF Requests
  <2>3. v.reads = u.reads \cup {a} => Requests(v) = Requests(u) \cup {a}
    BY <1>3 DEF Requests
  <2> QED BY <2>1, <2>2, <2>3
<1>6. PICK n \in Nat : n = Len(u.tex) /\ DOMAIN u.tex = 1 .. n
  BY <1>1, TexEntry
<1>7. /\ DOMAIN v.tex = 1 .. n + 1 /\ \A i \in 1 .. n : v.tex[i] = u.tex[i]
      /\ v.tex[n + 1].access = a
      /\ Requests(v) = Requests(u) \/ ~ v.tex[n + 1].here
  <2>1. u.tex \in Seq(TexEntries)
    BY <1>1, CoreFields
  <2>2. PICK e : v.tex = Append(u.tex, e) /\ e.access = a /\ (v.reads = u.reads \/ ~ e.here)
    BY DEF JoinsTex
  <2>3. /\ DOMAIN v.tex = 1 .. n + 1 /\ v.tex[n + 1] = e /\ \A i \in 1 .. n : v.tex[i] = u.tex[i]
    BY <1>6, <2>1, <2>2
  <2>4. v.reads = u.reads => Requests(v) = Requests(u)
    BY <1>3 DEF Requests
  <2> QED BY <2>2, <2>3, <2>4
<1>8. /\ 1 .. n + 1 = (1 .. n) \cup {n + 1} /\ n + 1 \notin 1 .. n
  OBVIOUS
<1>9. Kinds(v)
  <2>1. \A i \in DOMAIN v.tex : v.tex[i].access.path = "tex"
    BY <1>1, <1>2, <1>6, <1>7, <1>8 DEF Kinds
  <2> QED BY <1>1, <1>3, <2>1 DEF Kinds
<1>10. \A b : (\E i \in DOMAIN v.tex : v.tex[i].access = b)
                <=> (b = a \/ \E i \in DOMAIN u.tex : u.tex[i].access = b)
  BY <1>6, <1>7, <1>8
<1>11. Outstanding(v) = Outstanding(u) \cup {a}
  <2>1. ASSUME NEW b
        PROVE  b \in Outstanding(v) <=>
              \/ b \in u.waiting \/ b \in u.ready \/ b \in Requests(v)
              \/ \E i \in DOMAIN v.tex : v.tex[i].access = b
              \/ b = u.nextGlobal /\ b # None
              \/ b = u.nextWb /\ b \in Accesses
    BY <1>3, <1>9, OutstandingIs
  <2>2. ASSUME NEW b
        PROVE  b \in Outstanding(u) <=>
              \/ b \in u.waiting \/ b \in u.ready \/ b \in Requests(u)
              \/ \E i \in DOMAIN u.tex : u.tex[i].access = b
              \/ b = u.nextGlobal /\ b # None
              \/ b = u.nextWb /\ b \in Accesses
    BY <1>1, OutstandingIs
  <2>3. \A b : b \in Outstanding(v) <=> b \in Outstanding(u) \/ b = a
    BY <1>5, <1>10, <2>1, <2>2
  <2> QED BY <2>3
<1>12. Places(v)
  <2>1. IsFiniteSet(Outstanding(v))
    BY <1>1, <1>11, FS_AddElement DEF Places
  <2>2. ASSUME NEW m \in Requests(v)
        PROVE  /\ m.path \in Cached => m \in v.waiting
               /\ m.path = "tex" => \E i \in DOMAIN v.tex : v.tex[i].access = m /\ ~v.tex[i].here
               /\ m # v.nextGlobal /\ m # v.nextWb
    <3>1. CASE m \in Requests(u)
      <4>1. /\ m.path \in Cached => m \in u.waiting
            /\ m.path = "tex" => \E i \in DOMAIN u.tex : u.tex[i].access = m /\ ~u.tex[i].here
            /\ m # u.nextGlobal /\ m # u.nextWb
        BY <1>1, <3>1 DEF Places
      <4>2. \A i \in DOMAIN u.tex : i \in DOMAIN v.tex /\ v.tex[i] = u.tex[i]
        BY <1>6, <1>7, <1>8
      <4> QED BY <1>3, <4>1, <4>2
    <3>2. CASE m \notin Requests(u)
      <4>1. m = a /\ ~ v.tex[n + 1].here
        BY <1>5, <1>7, <3>2
      <4>2. n + 1 \in DOMAIN v.tex /\ m.path \notin Cached
        BY <1>2, <1>7, <1>8, <4>1 DEF Cached
      <4> QED BY <1>3, <1>4, <1>7, <4>1, <4>2
    <3> QED BY <3>1, <3>2
  <2>3. ASSUME NEW m \in Requests(v), NEW o \in Requests(v), m.path \in Cached, o.path \in Cached,
               SameCache(m.path, o.path), m.block = o.block
        PROVE  m = o
    <3>1. a.path \notin Cached
      BY <1>2 DEF Cached
    <3>2. m \in Requests(u) /\ o \in Requests(u)
      BY <1>5, <2>3, <3>1
    <3> QED BY <1>1, <2>3, <3>2 DEF Places
  <2>4. \A i \in DOMAIN u.fifo : u.fifo[i] \notin v.reads
    <3>1. ASSUME NEW i \in DOMAIN u.fifo PROVE u.fifo[i] # a
      <4>1. a.path # "ack"
        BY <1>2, AccessAnswered
      <4> QED BY <1>1, <1>4, <4>1, RequestsAre
    <3> QED BY <1>1, <1>5, <3>1 DEF Places
  <2>5. \A i, j \in DOMAIN v.tex : v.tex[i].access = v.tex[j].access => i = j
    <3>1. \A i, j \in 1 .. n : u.tex[i].access = u.tex[j].access => i = j
      BY <1>1, <1>6 DEF Places
    <3>2. \A i \in 1 .. n : v.tex[i].access = u.tex[i].access /\ u.tex[i].access # a
      BY <1>4, <1>6, <1>7
    <3> QED BY <1>7, <1>8, <3>1, <3>2
  <2>6. v.nextWb # None => \A i \in DOMAIN v.tex : v.tex[i].access # v.nextWb
    <3>1. u.nextWb # None => \A i \in 1 .. n : u.tex[i].access # u.nextWb
      BY <1>1, <1>6 DEF Places
    <3> QED BY <1>3, <1>4, <1>7, <1>8, <3>1
  <2>7. /\ \A i, j \in DOMAIN v.fifo : v.fifo[i].path # "ack" /\ v.fifo[i] = v.fifo[j] => i = j
        /\ v.waiting \cap v.ready = {}
        /\ v.nextWb # None => v.nextWb # v.nextGlobal /\ v.nextWb \notin v.waiting \cup v.ready
    BY <1>1, <1>3 DEF Places
  <2> QED BY <1>3, <2>1, <2>2, <2>3, <2>4, <2>5, <2>6, <2>7 DEF Places
<1>13. Pops(u, v) /\ v.pending = u.pending /\ v.stores = u.stores /\ v.writes = u.writes
  BY DEF JoinsTex
<1> QED BY <1>9, <1>11, <1>12, <1>13, SentSound


LEMMA TextureKeeps ==
  ASSUME NEW u, Sound(u), u.dispatch # None, u.dispatch.blocks # <<>>, ~ u.dispatch.store,
         u.dispatch.path = "tex", NEW v \in Texture(u)
  PROVE  Keeps(u, v) /\ (v = u \/ Without(u.dispatch, v.dispatch))
<1>1. PICK a : a = AccessOf(u.dispatch)
  OBVIOUS
<1>2. CASE v = u
  BY <1>2 DEF Keeps
<1>3. CASE JoinsTex(u, v, a)
  <2>1. Keeps(u, v)
    BY <1>1, <1>3, JoinsTexKeeps
  <2> QED BY <1>3, <2>1 DEF JoinsTex, Pops
<1> QED BY <1>1, <1>2, <1>3, TextureFields

\* A load past the L1 cache sends a request that nothing in the core waits for.
JoinsNetwork(u, v, a) ==
  /\ Pops(u, v) /\ v.pending = u.pending /\ v.waiting = u.waiting /\ v.ready = u.ready
  /\ v.tex = u.tex /\ v.stores = u.stores /\ v.writes = u.writes
  /\ v.reads = u.reads \cup {a}

LEMMA BypassFields ==
  ASSUME NEW u, Sound(u), u.dispatch # None, u.dispatch.blocks # <<>>, ~ u.dispatch.store,
         NEW a, a = AccessOf(u.dispatch), NEW v,
         v = [Popped(u) EXCEPT !.reads = @ \cup {AccessOf(u.dispatch)}]
  PROVE  JoinsNetwork(u, v, a)
<1>1. u \in CoreRecords /\ Kinds(u)
  BY DEF Sound
<1>2. a \in Accesses
  BY PresentAccess
<1>3. PICK p, Q : p = Popped(u) /\ Q = u.reads \cup {a}
  OBVIOUS
<1>4. /\ Pops(u, p) /\ p.pending = u.pending /\ p.waiting = u.waiting
      /\ p.ready = u.ready /\ p.tex = u.tex /\ p.reads = u.reads
      /\ p.stores = u.stores /\ p.writes = u.writes /\ p \in CoreRecords
  BY <1>1, <1>3, PoppedIs DEF Pops
<1>5. Q \subseteq Accesses
  BY <1>1, <1>2, <1>3, CoreFields
<1>6. v = [p EXCEPT !.reads = Q]
  BY <1>3, <1>4
<1>7. v \in CoreRecords /\ v.reads = Q
  BY <1>4, <1>5, <1>6 DEF CoreRecords
<1>8. /\ v.dispatch = p.dispatch /\ v.collecting = p.collecting /\ v.pipe = p.pipe
      /\ v.fifo = p.fifo /\ v.nextGlobal = p.nextGlobal /\ v.nextWb = p.nextWb
      /\ v.reserved = p.reserved /\ v.inPipe = p.inPipe /\ v.pending = p.pending
      /\ v.waiting = p.waiting /\ v.ready = p.ready /\ v.tex = p.tex
      /\ v.stores = p.stores /\ v.writes = p.writes
  BY <1>4, <1>6 DEF CoreRecords
<1> QED BY <1>3, <1>4, <1>7, <1>8 DEF JoinsNetwork, Pops

LEMMA JoinsNetworkKeeps ==
  ASSUME NEW u, Sound(u), u.dispatch # None, u.dispatch.blocks # <<>>, ~ u.dispatch.store,
         u.dispatch.path = "bypass", NEW a, a = AccessOf(u.dispatch), NEW v,
         JoinsNetwork(u, v, a)
  PROVE  Keeps(u, v)
<1>1. u \in CoreRecords /\ Kinds(u) /\ Places(u)
  BY DEF Sound
<1>2. a \in Accesses /\ a.path = "bypass" /\ a \notin Outstanding(u) /\ a # None
  BY PresentAccess
<1>3. /\ v.fifo = u.fifo /\ v.tex = u.tex /\ v.nextGlobal = u.nextGlobal
      /\ v.nextWb = u.nextWb /\ v.collecting = u.collecting /\ v.pipe = u.pipe
      /\ Legal(v.dispatch) /\ v.waiting = u.waiting /\ v.ready = u.ready
      /\ v \in CoreRecords /\ v.reads = u.reads \cup {a}
  BY DEF JoinsNetwork, Pops, Without
<1>4. Requests(v) = Requests(u) \cup {a}
  BY <1>3 DEF Requests
<1>5. /\ a \notin u.waiting /\ a \notin u.ready /\ a \notin Requests(u)
       /\ a # u.nextGlobal /\ a # u.nextWb
  BY <1>1, <1>2, OutstandingIs
<1>6. Kinds(v)
  BY <1>1, <1>3 DEF Kinds
<1>7. Outstanding(v) = Outstanding(u) \cup {a}
  <2>1. ASSUME NEW b
        PROVE  b \in Outstanding(v) <=>
              \/ b \in u.waiting \/ b \in u.ready \/ b \in Requests(v)
              \/ \E i \in DOMAIN u.tex : u.tex[i].access = b
              \/ b = u.nextGlobal /\ b # None
              \/ b = u.nextWb /\ b \in Accesses
    BY <1>3, <1>6, OutstandingIs
  <2>2. ASSUME NEW b
        PROVE  b \in Outstanding(u) <=>
              \/ b \in u.waiting \/ b \in u.ready \/ b \in Requests(u)
              \/ \E i \in DOMAIN u.tex : u.tex[i].access = b
              \/ b = u.nextGlobal /\ b # None
              \/ b = u.nextWb /\ b \in Accesses
    BY <1>1, OutstandingIs
  <2>3. \A b : b \in Outstanding(v) <=> b \in Outstanding(u) \/ b = a
    BY <1>4, <2>1, <2>2
  <2> QED BY <2>3
<1>8. Places(v)
  <2>1. IsFiniteSet(Outstanding(v))
    BY <1>1, <1>7, FS_AddElement DEF Places
  <2>2. a.path \notin Cached /\ a.path # "tex"
    BY <1>2 DEF Cached
  <2>3. \A m \in Requests(v) : m \in Requests(u) \/ m = a
    BY <1>4
  <2>4. \A m \in Requests(v) :
          /\ m.path \in Cached => m \in u.waiting
          /\ m.path = "tex" => \E i \in DOMAIN u.tex : u.tex[i].access = m /\ ~u.tex[i].here
          /\ m # u.nextGlobal /\ m # u.nextWb
    BY <1>1, <1>5, <2>2, <2>3 DEF Places
  <2>5. \A m, n \in Requests(v) :
          m.path \in Cached /\ n.path \in Cached /\ SameCache(m.path, n.path)
            /\ m.block = n.block => m = n
    BY <1>1, <2>2, <2>3 DEF Places
  <2>6. \A i \in DOMAIN u.fifo : u.fifo[i] \notin v.reads
    <3>1. ASSUME NEW i \in DOMAIN u.fifo PROVE u.fifo[i] # a
      <4>1. a.path # "ack"
        BY <1>2
      <4> QED BY <1>1, <1>5, <4>1, RequestsAre
    <3> QED BY <1>1, <1>3, <3>1 DEF Places
  <2> QED BY <1>1, <1>3, <2>1, <2>4, <2>5, <2>6 DEF Places
<1>9. Pops(u, v) /\ v.pending = u.pending /\ v.stores = u.stores /\ v.writes = u.writes
  BY DEF JoinsNetwork
<1> QED BY <1>6, <1>7, <1>8, <1>9, SentSound

LEMMA BypassKeeps ==
  ASSUME NEW u, Sound(u), u.dispatch # None, u.dispatch.blocks # <<>>, ~ u.dispatch.store,
         u.dispatch.path = "bypass", NEW v,
         v = [Popped(u) EXCEPT !.reads = @ \cup {AccessOf(u.dispatch)}]
  PROVE  Keeps(u, v) /\ Without(u.dispatch, v.dispatch)
<1>1. PICK a : a = AccessOf(u.dispatch)
  OBVIOUS
<1>2. JoinsNetwork(u, v, a)
  BY <1>1, BypassFields
<1>3. Keeps(u, v)
  BY <1>1, <1>2, JoinsNetworkKeeps
<1> QED BY <1>2, <1>3 DEF JoinsNetwork, Pops

\* An access of a store.
LEMMA StorePops ==
  ASSUME NEW u, Sound(u), u.dispatch # None, u.dispatch.blocks # <<>>, u.dispatch.store,
         NEW v, Pops(u, v), v.pending = u.pending, v.waiting = u.waiting,
         v.ready = u.ready, v.tex = u.tex, v.reads = u.reads, StoresCounted(v),
         \A w \in Warps : w # u.dispatch.warp => v.stores[w] = u.stores[w]
  PROVE  Keeps(u, v) /\ Without(u.dispatch, v.dispatch)
<1>1. PICK d, e, out : d = u.dispatch /\ e = v.dispatch /\ out = Outstanding(u)
  OBVIOUS
<1>2. /\ Legal(d) /\ d \in Instructions /\ Matches(u.pending, out, d)
      /\ Held(u) /\ PipeCounted(u) /\ Kinds(u) /\ Places(u)
  BY <1>1 DEF Sound, Kinds, Legal
<1>3. /\ Same(d, e) /\ Legal(e) /\ v \in CoreRecords /\ e \in Instructions
      /\ v.fifo = u.fifo /\ v.nextGlobal = u.nextGlobal
      /\ v.nextWb = u.nextWb /\ v.collecting = u.collecting /\ v.pipe = u.pipe
      /\ v.reserved = u.reserved /\ v.inPipe = u.inPipe
  BY <1>1 DEF Pops, Without, Legal
<1>4. ~ Answered(d) /\ ~ Answered(e)
  BY <1>1, <1>2, <1>3, InstructionAnswered DEF Same
<1>5. Kinds(v)
  BY <1>1, <1>2, <1>3 DEF Kinds
<1>6. Outstanding(v) = out /\ Places(v)
  BY <1>1, <1>2, <1>3, OutstandingSame
<1>7. Matches(v.pending, out, e) /\ Ahead(out, e)
  BY <1>2, <1>4, MatchesOther DEF Ahead
<1>8. Held(v) /\ PipeCounted(v)
  BY <1>2, PopsKeepHeld
<1>9. Sound(v)
  BY <1>1, <1>3, <1>5, <1>6, <1>7, <1>8 DEF Sound
<1>10. ASSUME NEW w \in Warps, Drained(u, w) PROVE Drained(v, w)
  <2>1. d.warp # w
    <3>1. ASSUME d.warp = w PROVE FALSE
      <4>1. d # None
        BY <1>1
      <4>2. Named(d, w) = 1
        BY <3>1, <4>1 DEF Named
      <4>3. /\ Named(u.pipe[1], w) \in {0, 1} /\ Named(u.pipe[2], w) \in {0, 1}
            /\ Named(u.pipe[3], w) \in {0, 1}
        BY DEF Named
      <4>4. Cardinality(CopiesOf(u.collecting, w)) \in Nat
        BY <1>2, CopiesFinite
      <4>5. u.inPipe[w] = Cardinality(CopiesOf(u.collecting, w)) + Named(d, w)
                + Named(u.pipe[1], w) + Named(u.pipe[2], w) + Named(u.pipe[3], w)
        BY <1>1, <1>2 DEF PipeCounted
      <4>6. u.inPipe[w] = 0
        BY <1>10 DEF Drained
      <4> QED BY <4>2, <4>3, <4>4, <4>5, <4>6
    <3> QED BY <3>1
  <2>2. v.stores[w] = u.stores[w]
    BY <1>1, <2>1
  <2> QED BY <1>3, <1>10, <2>2 DEF Drained
<1> QED BY <1>9, <1>10 DEF Keeps, Pops

LEMMA PoppedKeeps ==
  ASSUME NEW u, Sound(u), u.dispatch # None, u.dispatch.blocks # <<>>, u.dispatch.store,
         NEW v, v = Popped(u)
  PROVE  Keeps(u, v) /\ Without(u.dispatch, v.dispatch)
<1>1. u \in CoreRecords /\ Kinds(u) /\ StoresCounted(u)
  BY DEF Sound
<1>2. /\ Pops(u, v) /\ v.pending = u.pending /\ v.waiting = u.waiting
      /\ v.ready = u.ready /\ v.tex = u.tex /\ v.reads = u.reads
      /\ v.stores = u.stores /\ v.writes = u.writes
  BY <1>1, PoppedIs
<1>3. StoresCounted(v)
  BY <1>1, <1>2, StoresSame DEF Pops
<1> QED BY <1>2, <1>3, StorePops

LEMMA SendKeeps ==
  ASSUME NEW u, Sound(u), u.dispatch # None, u.dispatch.blocks # <<>>, u.dispatch.store,
         NEW v, v = Send(u)
  PROVE  Keeps(u, v) /\ Without(u.dispatch, v.dispatch)
<1>1. u \in CoreRecords /\ Kinds(u) /\ StoresCounted(u)
  BY DEF Sound
<1>2. PICK p, x : p = Popped(u) /\ x = u.dispatch.warp
  OBVIOUS
<1>3. /\ Pops(u, p) /\ p.pending = u.pending /\ p.waiting = u.waiting
      /\ p.ready = u.ready /\ p.tex = u.tex /\ p.reads = u.reads
      /\ p.stores = u.stores /\ p.writes = u.writes /\ p \in CoreRecords
  BY <1>1, <1>2, PoppedIs DEF Pops
<1>4. x \in Warps
  BY <1>1, <1>2, InstructionAnswered DEF Kinds, Legal
<1>5. u.stores \in [Warps -> Int] /\ u.writes \in [Warps -> Nat]
  BY <1>1, CoreFields
<1>6. PICK S, W : S = [u.stores EXCEPT ![x] = @ + 1] /\ W = [u.writes EXCEPT ![x] = @ + 1]
  OBVIOUS
<1>7. S \in [Warps -> Int] /\ W \in [Warps -> Nat]
  BY <1>4, <1>5, <1>6
<1>8. v = [p EXCEPT !.stores = S, !.writes = W]
  BY <1>2, <1>3, <1>6 DEF Send
<1>9. v \in CoreRecords /\ v.stores = S /\ v.writes = W
  BY <1>3, <1>7, <1>8 DEF CoreRecords
<1>10. /\ v.dispatch = p.dispatch /\ v.collecting = p.collecting /\ v.pipe = p.pipe
       /\ v.fifo = p.fifo /\ v.nextGlobal = p.nextGlobal /\ v.nextWb = p.nextWb
       /\ v.reserved = p.reserved /\ v.inPipe = p.inPipe /\ v.pending = p.pending
       /\ v.waiting = p.waiting /\ v.ready = p.ready /\ v.tex = p.tex /\ v.reads = p.reads
  BY <1>3, <1>8 DEF CoreRecords
<1>11. Pops(u, v) /\ v.fifo = u.fifo
  BY <1>3, <1>9, <1>10 DEF Pops
<1>12. StoresCounted(v)
  <2>1. ASSUME NEW w \in Warps PROVE v.stores[w] = v.writes[w] + Cardinality(AcksOf(v.fifo, w))
    <3>1. PICK n : n = Cardinality(AcksOf(v.fifo, w))
      OBVIOUS
    <3>2. u.fifo \in Seq(Accesses \cup Acks)
      BY <1>1, CoreFields
    <3>3. n \in Nat
      BY <1>11, <3>1, <3>2, AcksFinite
    <3>4. u.stores[w] = u.writes[w] + n
      BY <1>1, <1>11, <3>1 DEF StoresCounted
    <3>5. v.stores[w] = v.writes[w] + n
      BY <1>4, <1>5, <1>6, <1>9, <3>3, <3>4
    <3> QED BY <3>1, <3>5
  <2> QED BY <2>1 DEF StoresCounted
<1>13. \A w \in Warps : w # u.dispatch.warp => v.stores[w] = u.stores[w]
  BY <1>2, <1>5, <1>6, <1>9
<1> QED BY <1>3, <1>10, <1>11, <1>12, <1>13, StorePops

LEMMA StoreKeeps ==
  ASSUME NEW u, Sound(u), u.dispatch # None, u.dispatch.blocks # <<>>, u.dispatch.store,
         NEW v \in Store(u)
  PROVE  Keeps(u, v) /\ (v = u \/ Without(u.dispatch, v.dispatch))
<1>1. v = Send(u) \/ v = Popped(u) \/ v = u
  BY Zenon DEF Store
<1>2. CASE v = Send(u)
  BY <1>2, SendKeeps
<1>3. CASE v = Popped(u)
  BY <1>3, PoppedKeeps
<1>4. CASE v = u
  BY <1>4 DEF Keeps
<1> QED BY <1>1, <1>2, <1>3, <1>4

LEMMA LoadKeeps ==
  ASSUME NEW u, Sound(u), u.dispatch # None, u.dispatch.blocks # <<>>, ~ u.dispatch.store,
         u.dispatch.path \in Cached, NEW v \in Load(u)
  PROVE  Keeps(u, v)
<1>1. v \in Miss(u) \/ v = Hit(u)
  BY Zenon DEF Load
<1>2. CASE v \in Miss(u)
  BY <1>2, MissKeeps
<1>3. CASE v = Hit(u)
  BY <1>3, HitKeeps
<1> QED BY <1>1, <1>2, <1>3

\* The access enters the decompressor.
LEMMA FiredKeeps ==
  ASSUME NEW u, Sound(u), u.dispatch # None, NEW v, v = [u EXCEPT !.dispatch.fired = TRUE]
  PROVE  /\ Keeps(u, v) /\ Same(u.dispatch, v.dispatch) /\ v.dispatch.fired
         /\ v.dispatch.blocks = u.dispatch.blocks
<1>1. PICK d, out : d = u.dispatch /\ out = Outstanding(u)
  OBVIOUS
<1>2. /\ Legal(d) /\ d \in Instructions /\ Matches(u.pending, out, d) /\ Ahead(out, d)
      /\ IsFiniteSet(out) /\ Held(u) /\ PipeCounted(u) /\ StoresCounted(u) /\ u \in CoreRecords
      /\ Places(u) /\ Kinds(u)
  BY <1>1 DEF Sound, Kinds, Places, Legal
<1>3. PICK e : e = [warp |-> d.warp, reg |-> d.reg, path |-> d.path, store |-> d.store,
                    blocks |-> d.blocks, fired |-> TRUE]
  OBVIOUS
<1>4. e \in Instructions
  BY <1>2, <1>3 DEF Instructions
<1>5. Same(d, e) /\ Legal(e) /\ e.fired /\ e.blocks = d.blocks
  <2>1. Legal(e)
    BY <1>2, <1>3, <1>4 DEF Legal
  <2> QED BY <1>2, <1>3, <1>4, <2>1 DEF Same
<1>6. v = [u EXCEPT !.dispatch = e]
  <2>1. d = [warp |-> d.warp, reg |-> d.reg, path |-> d.path, store |-> d.store,
             blocks |-> d.blocks, fired |-> d.fired]
    BY <1>2 DEF Instructions
  <2>2. PICK a, b, c, g, h, i : /\ a = d.warp /\ b = d.reg /\ c = d.path /\ g = d.store
                                /\ h = d.blocks /\ i = d.fired
    OBVIOUS
  <2>3. d = [warp |-> a, reg |-> b, path |-> c, store |-> g, blocks |-> h, fired |-> i]
    BY <2>1, <2>2
  <2>4. \A y : [d EXCEPT !.fired = y]
                 = [warp |-> a, reg |-> b, path |-> c, store |-> g, blocks |-> h, fired |-> y]
    BY <2>3
  <2>5. [d EXCEPT !.fired = TRUE]
          = [warp |-> a, reg |-> b, path |-> c, store |-> g, blocks |-> h, fired |-> TRUE]
    BY <2>4, Zenon
  <2>6. \A y : [u EXCEPT !.dispatch.fired = y] = [u EXCEPT !.dispatch = [d EXCEPT !.fired = y]]
    BY <1>1, <1>2 DEF CoreRecords
  <2>7. [u EXCEPT !.dispatch.fired = TRUE] = [u EXCEPT !.dispatch = [d EXCEPT !.fired = TRUE]]
    BY <2>6, Zenon
  <2>8. [d EXCEPT !.fired = TRUE] = e
    BY <1>3, <2>2, <2>5, Zenon
  <2> QED BY <2>7, <2>8, Zenon
<1>7. v \in CoreRecords /\ v.dispatch = e
  BY <1>2, <1>4, <1>6 DEF CoreRecords
<1>8. /\ v.collecting = u.collecting /\ v.pipe = u.pipe /\ v.fifo = u.fifo
      /\ v.nextGlobal = u.nextGlobal /\ v.nextWb = u.nextWb
      /\ v.reserved = u.reserved /\ v.inPipe = u.inPipe
      /\ v.pending = u.pending /\ v.waiting = u.waiting
      /\ v.ready = u.ready /\ v.tex = u.tex /\ v.reads = u.reads
      /\ v.stores = u.stores /\ v.writes = u.writes
  BY <1>2, <1>6 DEF CoreRecords
<1> HIDE <1>3, <1>6
<1>9. Kinds(v)
  BY <1>2, <1>5, <1>7, <1>8 DEF Kinds
<1>10. Outstanding(v) = out /\ Places(v)
  BY <1>1, <1>2, <1>8, OutstandingSame
<1>11. Matches(v.pending, out, e)
  <2>1. \A k : Loads(e, k) <=> Loads(d, k)
    BY <1>5, SameIs
  <2> QED BY <1>2, <1>5, <1>8, <2>1 DEF Matches
<1>12. Ahead(out, e)
  <2>1. Key(e) = Key(d) /\ (Answered(e) <=> Answered(d)) /\ d # None
    BY <1>1, <1>5, SameIs
  <2> QED BY <1>2, <1>5, <2>1 DEF Ahead
<1>13. \A k : HoldsShared(e, k) = HoldsShared(d, k) /\ Named(e, k) = Named(d, k)
  BY <1>5, SameIs
<1>14. Held(v)
  BY <1>1, <1>2, <1>7, <1>8, <1>13 DEF Held
<1>15. PipeCounted(v)
  BY <1>1, <1>2, <1>7, <1>8, <1>13 DEF PipeCounted
<1>16. StoresCounted(v)
  BY <1>2, <1>8, StoresSame
<1>17. Sound(v)
  BY <1>7, <1>9, <1>10, <1>11, <1>12, <1>14, <1>15, <1>16 DEF Sound
<1>18. \A w \in Warps : Drained(u, w) => Drained(v, w)
  BY <1>8 DEF Drained
<1> QED BY <1>1, <1>5, <1>7, <1>17, <1>18 DEF Keeps

\* What the present access comes to.
Plainly(u, v) ==
  LET d == u.dispatch IN
  \/ d.store /\ v = Send(u)
  \/ d.path = "bypass" /\ ~d.store /\ v = [Popped(u) EXCEPT !.reads = @ \cup {AccessOf(d)}]
  \/ d.path = "tex" /\ ~d.store /\ v \in Texture(u)
  \/ d.store /\ v \in Store(u)
  \/ d.path \in Cached /\ ~d.store /\ ~(d.path = "global" /\ mode) /\ v \in Load(u)

LEMMA AccessedCases ==
  ASSUME NEW c, NEW u, Sound(u), NEW stages, NEW port, NEW x \in Accessed(c, u, stages, port)
  PROVE  \/ x = <<u, stages>>
            /\ (u.dispatch # None /\ u.dispatch.blocks # <<>> => ~ port)
         \/ /\ u.dispatch # None /\ u.dispatch.blocks # <<>> /\ port
            /\ \/ \E v : x = <<v, stages>> /\ Plainly(u, v)
               \/ /\ u.dispatch.path = "global" /\ ~ u.dispatch.store /\ mode
                  /\ x \in Compressed(c, u, stages)
<1>1. PICK d : d = u.dispatch
  OBVIOUS
<1>2. CASE d = None \/ d.blocks = <<>> \/ ~ port
  <2>1. Accessed(c, u, stages, port) = {<<v, stages>> : v \in {u}}
    BY <1>1, <1>2, Zenon DEF Accessed
  <2> QED BY <1>1, <1>2, <2>1
<1>3. CASE d # None /\ d.blocks # <<>> /\ port
  <2>1. Legal(d) /\ d.path \in Paths \ {"shared"} /\ (d.store => d.path # "tex")
    BY <1>1, <1>3 DEF Sound, Kinds, Legal, Instructions
  <2> DEFINE plain(cores) == {<<v, stages>> : v \in cores}
             bypass == plain({Bypass(u)})
             texture == plain(Texture(u))
             store == plain(Store(u))
             compressed == Compressed(c, u, stages)
             load == plain(Load(u))
             all == CASE d.path = "bypass" -> bypass
                      [] d.path = "tex" -> texture
                      [] d.path \in Cached /\ d.store -> store
                      [] d.path = "global" /\ ~d.store /\ mode -> compressed
                      [] OTHER -> load
  <2>2. Accessed(c, u, stages, port) = all
    BY <1>1, <1>3, Zenon DEF Accessed
  <2>3. ASSUME x \in bypass
        PROVE  \E v : /\ x = <<v, stages>>
                      /\ \/ d.store /\ v = Send(u)
                         \/ ~d.store /\ v = [Popped(u) EXCEPT !.reads = @ \cup {AccessOf(d)}]
    <3>1. x = <<Bypass(u), stages>>
      BY <2>3
    <3>2. \/ d.store /\ Bypass(u) = Send(u)
          \/ ~d.store /\ Bypass(u) = [Popped(u) EXCEPT !.reads = @ \cup {AccessOf(d)}]
      BY <1>1, Zenon DEF Bypass
    <3> QED BY <3>1, <3>2, Zenon
  <2>4. ASSUME x \in texture PROVE \E v : x = <<v, stages>> /\ v \in Texture(u)
    BY <2>4
  <2>5. ASSUME x \in store PROVE \E v : x = <<v, stages>> /\ v \in Store(u)
    BY <2>5
  <2>6. ASSUME x \in load PROVE \E v : x = <<v, stages>> /\ v \in Load(u)
    BY <2>6
  <2> HIDE DEF bypass, texture, store, compressed, load
  <2>7. \/ d.path = "bypass" /\ x \in bypass
        \/ d.path = "tex" /\ x \in texture
        \/ d.path \in Cached /\ d.store /\ x \in store
        \/ d.path = "global" /\ ~d.store /\ mode /\ x \in compressed
        \/ d.path \in Cached /\ ~d.store /\ ~(d.path = "global" /\ mode) /\ x \in load
    BY <2>1, <2>2 DEF Paths, Cached
  <2>8. CASE d.path = "bypass" /\ x \in bypass
    <3>1. \E v : x = <<v, stages>> /\ Plainly(u, v)
      BY <1>1, <2>3, <2>8, Zenon DEF Plainly
    <3> QED BY <1>1, <1>3, <3>1
  <2>9. CASE d.path = "tex" /\ x \in texture
    <3>1. \E v : x = <<v, stages>> /\ Plainly(u, v)
      BY <1>1, <2>1, <2>4, <2>9, Zenon DEF Plainly
    <3> QED BY <1>1, <1>3, <3>1
  <2>10. CASE d.path \in Cached /\ d.store /\ x \in store
    <3>1. \E v : x = <<v, stages>> /\ Plainly(u, v)
      BY <1>1, <2>5, <2>10, Zenon DEF Plainly
    <3> QED BY <1>1, <1>3, <3>1
  <2>11. CASE d.path = "global" /\ ~d.store /\ mode /\ x \in compressed
    BY <1>1, <1>3, <2>11 DEF compressed
  <2>12. CASE d.path \in Cached /\ ~d.store /\ ~(d.path = "global" /\ mode) /\ x \in load
    <3>1. \E v : x = <<v, stages>> /\ Plainly(u, v)
      BY <1>1, <2>6, <2>12, Zenon DEF Plainly
    <3> QED BY <1>1, <1>3, <3>1
  <2> QED BY <2>7, <2>8, <2>9, <2>10, <2>11, <2>12
<1> QED BY <1>2, <1>3

LEMMA CompressedCases ==
  ASSUME NEW c, NEW u, NEW stages, NEW x \in Compressed(c, u, stages)
  PROVE  \/ Last(stages) # None /\ x = <<Hit(u), Shifted(stages)>>
         \/ Last(stages) = None /\ u.dispatch.fired /\ x = <<u, Shifted(stages)>>
         \/ /\ Last(stages) = None /\ ~ u.dispatch.fired
            /\ \/ \E v \in Miss(u) : x = <<v, Shifted(stages)>>
               \/ x = <<[u EXCEPT !.dispatch.fired = TRUE],
                        [Shifted(stages) EXCEPT
                           ![1] = [core |-> c, access |-> AccessOf(u.dispatch)]]>>
  BY Zenon DEF Compressed

LEMMA AccessedKeeps ==
  ASSUME NEW c, NEW u, Sound(u), NEW stages, NEW port, NEW x \in Accessed(c, u, stages, port)
  PROVE  Keeps(u, x[1])
<1>1. Keeps(u, u)
  BY DEF Keeps
<1>2. ASSUME u.dispatch # None, u.dispatch.blocks # <<>>, NEW v, Plainly(u, v)
      PROVE  Keeps(u, v)
  <2>1. CASE u.dispatch.store /\ v = Send(u)
    BY <1>2, <2>1, SendKeeps
  <2>2. CASE /\ u.dispatch.path = "bypass" /\ ~u.dispatch.store
             /\ v = [Popped(u) EXCEPT !.reads = @ \cup {AccessOf(u.dispatch)}]
    BY <1>2, <2>2, BypassKeeps
  <2>3. CASE u.dispatch.path = "tex" /\ ~u.dispatch.store /\ v \in Texture(u)
    BY <1>2, <2>3, TextureKeeps
  <2>4. CASE u.dispatch.store /\ v \in Store(u)
    BY <1>2, <2>4, StoreKeeps
  <2>5. CASE u.dispatch.path \in Cached /\ ~u.dispatch.store /\ v \in Load(u)
    BY <1>2, <2>5, LoadKeeps
  <2> QED BY <1>2, <2>1, <2>2, <2>3, <2>4, <2>5 DEF Plainly
<1>3. ASSUME u.dispatch # None, u.dispatch.blocks # <<>>, u.dispatch.path = "global",
             ~ u.dispatch.store, x \in Compressed(c, u, stages)
      PROVE  Keeps(u, x[1])
  <2>1. Keeps(u, Hit(u))
    BY <1>3, HitKeeps
  <2>2. \A v \in Miss(u) : Keeps(u, v)
    BY <1>3, MissKeeps DEF Cached
  <2>3. Keeps(u, [u EXCEPT !.dispatch.fired = TRUE])
    BY <1>3, FiredKeeps
  <2>4. PICK f, s : f = [u EXCEPT !.dispatch.fired = TRUE]
                    /\ s = [Shifted(stages) EXCEPT
                              ![1] = [core |-> c, access |-> AccessOf(u.dispatch)]]
    OBVIOUS
  <2>5. \/ x = <<Hit(u), Shifted(stages)>> \/ x = <<u, Shifted(stages)>>
        \/ \E v \in Miss(u) : x = <<v, Shifted(stages)>>
        \/ x = <<f, s>>
    <3>1. \/ x = <<Hit(u), Shifted(stages)>> \/ x = <<u, Shifted(stages)>>
          \/ \E v \in Miss(u) : x = <<v, Shifted(stages)>>
          \/ x = <<[u EXCEPT !.dispatch.fired = TRUE],
                   [Shifted(stages) EXCEPT
                      ![1] = [core |-> c, access |-> AccessOf(u.dispatch)]]>>
      <4> HIDE <2>4
      <4> QED BY <1>3, CompressedCases
    <3> QED BY <2>4, <3>1, Zenon
  <2>6. Keeps(u, f)
    BY <2>3, <2>4
  <2> HIDE <2>4
  <2> QED BY <1>1, <2>1, <2>2, <2>5, <2>6
<1> QED BY <1>1, <1>2, <1>3, AccessedCases

-----------------------------------------------------------------------------
(* The end of cycle().                                                     *)

\* What all instructions that leave the unit leave alone.
Left(u, v) ==
  /\ v \in CoreRecords /\ v.dispatch = None
  /\ v.collecting = u.collecting /\ v.fifo = u.fifo /\ v.tex = u.tex
  /\ v.waiting = u.waiting /\ v.ready = u.ready
  /\ v.nextGlobal = u.nextGlobal /\ v.nextWb = u.nextWb
  /\ v.stores = u.stores /\ v.reads = u.reads /\ v.writes = u.writes

Gone(u, v) ==
  /\ Left(u, v) /\ v.pipe = u.pipe
  /\ v.inPipe = [u.inPipe EXCEPT ![u.dispatch.warp] = @ - 1]

LEMMA LeaveFields ==
  ASSUME NEW u \in CoreRecords, Kinds(u), NEW port, NEW v, v = Leave(u, port), NEW d,
         d = u.dispatch, NEW k, k = Key(d)
  PROVE  \/ v = u /\ (d = None \/ d.blocks # <<>> \/ d.path = "shared")
         \/ /\ d # None /\ d.blocks = <<>> /\ Gone(u, v)
            /\ d.store \/ (d.path # "shared" /\ u.pending[k] > 0)
            /\ v.pending = u.pending /\ v.reserved = u.reserved
         \/ /\ d # None /\ d.blocks = <<>> /\ Gone(u, v)
            /\ ~ d.store /\ d.path # "shared" /\ ~ (u.pending[k] > 0)
            /\ v.pending = WithoutKey(u.pending, k) /\ v.reserved = u.reserved \ {k}
         \/ /\ d # None /\ ~ d.store /\ d.path = "shared" /\ u.pipe[3] = None
            /\ Left(u, v) /\ v.pipe = [u.pipe EXCEPT ![3] = d] /\ v.inPipe = u.inPipe
            /\ v.pending = u.pending /\ v.reserved = u.reserved
<1> DEFINE gone == [u EXCEPT !.dispatch = None, !.inPipe[d.warp] = @ - 1]
           last == [gone EXCEPT !.pending = WithoutKey(@, Key(d)), !.reserved = @ \ {Key(d)}]
           moved == [u EXCEPT !.dispatch = None, !.pipe[3] = d]
<1>1. \/ v = u /\ (d = None \/ d.blocks # <<>> \/ d.path = "shared")
      \/ d # None /\ d.blocks = <<>> /\ d.store /\ v = gone
      \/ d # None /\ ~ d.store /\ d.path = "shared" /\ u.pipe[3] = None /\ v = moved
      \/ d # None /\ d.blocks = <<>> /\ ~ d.store /\ d.path # "shared" /\ u.pending[k] > 0
         /\ v = gone
      \/ d # None /\ d.blocks = <<>> /\ ~ d.store /\ d.path # "shared" /\ ~ (u.pending[k] > 0)
         /\ v = last
  <2> HIDE DEF gone, last, moved
  <2>1. v = IF d = None THEN u
            ELSE IF d.blocks # <<>> \/ (d.path = "shared" /\ ~port) THEN u
            ELSE IF d.store THEN gone
            ELSE IF d.path = "shared"
              THEN IF u.pipe[3] # None THEN u ELSE moved
            ELSE IF u.pending[k] > 0 THEN gone ELSE last
    BY Zenon DEF Leave, gone, last, moved
  <2>2. PICK positive \in BOOLEAN : positive <=> u.pending[k] > 0
    OBVIOUS
  <2> QED BY <2>1, <2>2
<1>2. PICK I : I = [u.inPipe EXCEPT ![d.warp] = @ - 1]
  OBVIOUS
<1>3. d # None => I \in [Warps -> Int]
  <2>1. u.inPipe \in [Warps -> Int]
    BY CoreFields
  <2>2. d # None => d.warp \in Warps
    BY InstructionAnswered DEF Kinds, Legal
  <2> QED BY <1>2, <2>1, <2>2
<1>4. gone = [u EXCEPT !.dispatch = None, !.inPipe = I]
  BY <1>2 DEF CoreRecords
<1>5. ASSUME d # None, v = gone
      PROVE  Gone(u, v) /\ v.pending = u.pending /\ v.reserved = u.reserved
  <2>1. v = [u EXCEPT !.dispatch = None, !.inPipe = I]
    BY <1>4, <1>5
  <2>2. v \in CoreRecords /\ v.dispatch = None /\ v.inPipe = I
    BY <1>3, <1>5, <2>1 DEF CoreRecords
  <2>3. /\ v.collecting = u.collecting /\ v.fifo = u.fifo /\ v.tex = u.tex
        /\ v.waiting = u.waiting /\ v.ready = u.ready
        /\ v.nextGlobal = u.nextGlobal /\ v.nextWb = u.nextWb
        /\ v.stores = u.stores /\ v.reads = u.reads /\ v.writes = u.writes
        /\ v.pipe = u.pipe /\ v.pending = u.pending /\ v.reserved = u.reserved
    BY <2>1 DEF CoreRecords
  <2> QED BY <1>2, <2>2, <2>3 DEF Gone, Left
<1>6. ASSUME d # None, v = last
      PROVE  /\ Gone(u, v) /\ v.pending = WithoutKey(u.pending, k)
             /\ v.reserved = u.reserved \ {k}
  <2>1. PICK P, R : P = WithoutKey(u.pending, k) /\ R = u.reserved \ {k}
    OBVIOUS
  <2>2. P \in Pendings /\ R \subseteq Keys
    <3>1. u.pending \in Pendings /\ u.reserved \subseteq Keys
      BY CoreFields
    <3>2. u.pending \in [DOMAIN u.pending -> Int] /\ DOMAIN u.pending \subseteq Keys
      BY <3>1, PendingsAre
    <3>3. P \in [DOMAIN P -> Int] /\ DOMAIN P \subseteq Keys
      BY <2>1, <3>2 DEF WithoutKey
    <3> QED BY <2>1, <3>1, <3>3, PendingsAre
  <2>3. gone.pending = u.pending /\ gone.reserved = u.reserved
    BY <1>4 DEF CoreRecords
  <2>4. v = [gone EXCEPT !.pending = P, !.reserved = R]
    <3> HIDE DEF gone
    <3> QED BY <1>6, <2>1, <2>3
  <2>5. v = [u EXCEPT !.dispatch = None, !.inPipe = I, !.pending = P, !.reserved = R]
    BY <1>4, <2>4
  <2>6. /\ v \in CoreRecords /\ v.dispatch = None /\ v.inPipe = I
        /\ v.pending = P /\ v.reserved = R
    <3>1. I \in [Warps -> Int]
      BY <1>3, <1>6
    <3> QED BY <2>2, <2>5, <3>1 DEF CoreRecords
  <2>7. /\ v.collecting = u.collecting /\ v.fifo = u.fifo /\ v.tex = u.tex
        /\ v.waiting = u.waiting /\ v.ready = u.ready
        /\ v.nextGlobal = u.nextGlobal /\ v.nextWb = u.nextWb
        /\ v.stores = u.stores /\ v.reads = u.reads /\ v.writes = u.writes
        /\ v.pipe = u.pipe
    BY <2>5 DEF CoreRecords
  <2> QED BY <1>2, <2>1, <2>6, <2>7 DEF Gone, Left
<1>7. ASSUME d # None, v = moved
      PROVE  /\ Left(u, v) /\ v.pipe = [u.pipe EXCEPT ![3] = d] /\ v.inPipe = u.inPipe
             /\ v.pending = u.pending /\ v.reserved = u.reserved
  <2>1. PICK P : P = [u.pipe EXCEPT ![3] = d]
    OBVIOUS
  <2>2. P \in [1 .. 3 -> Instructions \cup {None}]
    <3>1. u.pipe \in [1 .. 3 -> Instructions \cup {None}] /\ d \in Instructions \cup {None}
      BY CoreFields
    <3> QED BY <2>1, <3>1
  <2>3. v = [u EXCEPT !.dispatch = None, !.pipe = P]
    BY <1>7, <2>1 DEF CoreRecords
  <2>4. v \in CoreRecords /\ v.dispatch = None /\ v.pipe = P
    BY <2>2, <2>3 DEF CoreRecords
  <2>5. /\ v.collecting = u.collecting /\ v.fifo = u.fifo /\ v.tex = u.tex
        /\ v.waiting = u.waiting /\ v.ready = u.ready
        /\ v.nextGlobal = u.nextGlobal /\ v.nextWb = u.nextWb
        /\ v.stores = u.stores /\ v.reads = u.reads /\ v.writes = u.writes
        /\ v.inPipe = u.inPipe /\ v.pending = u.pending /\ v.reserved = u.reserved
    BY <2>3 DEF CoreRecords
  <2> QED BY <2>1, <2>4, <2>5 DEF Left
<1> HIDE DEF gone, last, moved
<1>8. PICK positive \in BOOLEAN : positive <=> u.pending[k] > 0
  OBVIOUS
<1> QED BY <1>1, <1>5, <1>6, <1>7, <1>8

\* What does not depend on how an instruction leaves.
LEMMA LeftKept ==
  ASSUME NEW u, Sound(u), NEW v, Left(u, v)
  PROVE  /\ Outstanding(v) = Outstanding(u) /\ Places(v) /\ StoresCounted(v) /\ Between(v)
         /\ \A k : HoldsShared(v.dispatch, k) = 0 /\ Named(v.dispatch, k) = 0
         /\ Ahead(Outstanding(v), v.dispatch)
<1>1. Places(u) /\ StoresCounted(u)
  BY DEF Sound
<1>2. Outstanding(v) = Outstanding(u) /\ Places(v)
  BY <1>1, OutstandingSame DEF Left
<1>3. StoresCounted(v)
  BY <1>1, StoresSame DEF Left
<1>4. v.dispatch = None
  BY DEF Left
<1> QED BY <1>2, <1>3, <1>4 DEF Between, HoldsShared, Named, Ahead

LEMMA GonePipe ==
  ASSUME NEW u, Sound(u), u.dispatch # None, NEW v, Gone(u, v)
  PROVE  PipeCounted(v) /\ \A w \in Warps : v.inPipe[w] <= u.inPipe[w]
<1>1. u \in CoreRecords /\ Kinds(u) /\ PipeCounted(u)
  BY DEF Sound
<1>2. PICK d : d = u.dispatch
  OBVIOUS
<1>3. d # None /\ d.warp \in Warps
  BY <1>1, <1>2, InstructionAnswered DEF Kinds, Legal
<1>4. u.inPipe \in [Warps -> Int]
  BY <1>1, CoreFields
<1>5. v.pipe = u.pipe /\ v.collecting = u.collecting /\ v.dispatch = None
      /\ v.inPipe = [u.inPipe EXCEPT ![d.warp] = @ - 1]
  BY <1>2 DEF Gone, Left
<1>6. ASSUME NEW w \in Warps
      PROVE  /\ v.inPipe[w] = u.inPipe[w] - Named(d, w) /\ v.inPipe[w] <= u.inPipe[w]
             /\ Named(v.dispatch, w) = 0
  <2>1. Named(d, w) = IF d.warp = w THEN 1 ELSE 0
    BY <1>3 DEF Named
  <2> QED BY <1>3, <1>4, <1>5, <2>1 DEF Named
<1>7. ASSUME NEW w \in Warps
      PROVE  v.inPipe[w] = Cardinality(CopiesOf(v.collecting, w)) + Named(v.dispatch, w)
                + Named(v.pipe[1], w) + Named(v.pipe[2], w) + Named(v.pipe[3], w)
  <2>1. PICK n : n = Cardinality(CopiesOf(u.collecting, w))
    OBVIOUS
  <2>2. n \in Nat
    BY <1>1, <2>1, CopiesFinite
  <2>3. /\ Named(d, w) \in {0, 1} /\ Named(u.pipe[1], w) \in {0, 1}
        /\ Named(u.pipe[2], w) \in {0, 1} /\ Named(u.pipe[3], w) \in {0, 1}
    BY DEF Named
  <2>4. u.inPipe[w] = n + Named(d, w)
                + Named(u.pipe[1], w) + Named(u.pipe[2], w) + Named(u.pipe[3], w)
    BY <1>1, <1>2, <2>1 DEF PipeCounted
  <2>5. v.inPipe[w] = u.inPipe[w] - Named(d, w) /\ Named(v.dispatch, w) = 0
    BY <1>6
  <2>6. v.inPipe[w] = n + Named(v.dispatch, w)
                + Named(v.pipe[1], w) + Named(v.pipe[2], w) + Named(v.pipe[3], w)
    BY <1>5, <2>2, <2>3, <2>4, <2>5
  <2> QED BY <1>5, <2>1, <2>6
<1> QED BY <1>6, <1>7 DEF PipeCounted

LEMMA LeaveKeeps ==
  ASSUME NEW u, Sound(u), NEW port, NEW v, v = Leave(u, port)
  PROVE  /\ Keeps(u, v) /\ Between(v)
         /\ u.dispatch = None \/ u.dispatch.blocks # <<>> => v = u
<1>1. u \in CoreRecords /\ Kinds(u) /\ Held(u) /\ PipeCounted(u) /\ Places(u)
  BY DEF Sound
<1>2. PICK d, k, out : d = u.dispatch /\ k = Key(d) /\ out = Outstanding(u)
  OBVIOUS
<1>3. Matches(u.pending, out, d) /\ IsFiniteSet(out)
  BY <1>1, <1>2 DEF Sound, Places
<1>4. u.dispatch = None \/ u.dispatch.blocks # <<>> => v = u
  BY Zenon DEF Leave
<1>5. d # None => d \in Instructions /\ k \in Keys /\ (Answered(d) <=> d.path # "shared" /\ ~d.store)
  BY <1>1, <1>2, InstructionAnswered DEF Kinds, Legal
<1>6. ASSUME Sound(v), v.reserved \subseteq u.reserved, v.stores = u.stores,
             \A w \in Warps : v.inPipe[w] <= u.inPipe[w]
      PROVE  Keeps(u, v)
  <2>1. \A w \in Warps : v.stores[w] <= u.stores[w]
    <3>1. u.stores \in [Warps -> Int]
      BY <1>1, CoreFields
    <3> QED BY <1>6, <3>1
  <2> QED BY <1>6, <2>1, DrainedKept DEF Keeps
<1>7. CASE v = u /\ (d = None \/ d.blocks # <<>> \/ d.path = "shared")
  <2>1. Between(v)
    BY <1>2, <1>5, <1>7 DEF Between
  <2> QED BY <1>4, <1>7, <2>1 DEF Keeps
<1>8. CASE /\ d # None /\ d.blocks = <<>> /\ Gone(u, v)
           /\ d.store \/ (d.path # "shared" /\ u.pending[k] > 0)
           /\ v.pending = u.pending /\ v.reserved = u.reserved
  <2>1. Left(u, v) /\ v.pipe = u.pipe
    BY <1>8 DEF Gone
  <2>2. /\ Outstanding(v) = out /\ Places(v) /\ StoresCounted(v) /\ Between(v)
        /\ \A j : HoldsShared(v.dispatch, j) = 0 /\ Named(v.dispatch, j) = 0
        /\ Ahead(out, v.dispatch) /\ v.dispatch = None
    BY <1>2, <2>1, LeftKept DEF Left
  <2>3. PipeCounted(v) /\ \A w \in Warps : v.inPipe[w] <= u.inPipe[w]
    BY <1>2, <1>8, GonePipe
  <2>4. Matches(v.pending, out, None)
    <3>1. CASE d.store
      <4>1. ~ Answered(d)
        BY <1>5, <1>8, <3>1
      <4> QED BY <1>3, <1>8, <4>1, MatchesOther
    <3>2. CASE ~ d.store /\ d.path # "shared" /\ u.pending[k] > 0
      <4>1. Answered(d)
        BY <1>5, <1>8, <3>2
      <4> QED BY <1>2, <1>3, <1>5, <1>8, <3>2, <4>1, MatchesLeave
    <3> QED BY <1>8, <3>1, <3>2
  <2>5. \A j : HoldsShared(d, j) = 0
    BY <1>8 DEF HoldsShared
  <2>6. Held(v)
    <3>1. v.collecting = u.collecting /\ v.nextWb = u.nextWb
      BY <2>1 DEF Left
    <3>2. \A j : HoldsShared(v.dispatch, j) = HoldsShared(u.dispatch, j)
      BY <1>2, <2>2, <2>5
    <3> QED BY <1>1, <1>8, <2>1, <3>1, <3>2 DEF Held
  <2>7. Kinds(v)
    BY <1>1, <2>1, <2>2 DEF Kinds, Left
  <2>8. Sound(v)
    BY <2>1, <2>2, <2>3, <2>4, <2>6, <2>7 DEF Sound, Left
  <2> QED BY <1>4, <1>6, <1>8, <2>1, <2>2, <2>3, <2>8 DEF Left
<1>9. CASE /\ d # None /\ d.blocks = <<>> /\ Gone(u, v)
           /\ ~ d.store /\ d.path # "shared" /\ ~ (u.pending[k] > 0)
           /\ v.pending = WithoutKey(u.pending, k) /\ v.reserved = u.reserved \ {k}
  <2>1. Left(u, v) /\ v.pipe = u.pipe
    BY <1>9 DEF Gone
  <2>2. /\ Outstanding(v) = out /\ Places(v) /\ StoresCounted(v) /\ Between(v)
        /\ \A j : HoldsShared(v.dispatch, j) = 0 /\ Named(v.dispatch, j) = 0
        /\ Ahead(out, v.dispatch) /\ v.dispatch = None
    BY <1>2, <2>1, LeftKept DEF Left
  <2>3. PipeCounted(v) /\ \A w \in Warps : v.inPipe[w] <= u.inPipe[w]
    BY <1>2, <1>9, GonePipe
  <2>4. Answered(d)
    BY <1>5, <1>9
  <2>5. k \in DOMAIN u.pending /\ Matches(v.pending, out, None)
    <3>1. /\ k \in DOMAIN u.pending
          /\ ~ u.pending[k] > 0 => Matches(WithoutKey(u.pending, k), out, None)
      BY <1>2, <1>3, <1>5, <1>9, <2>4, MatchesLeave
    <3> QED BY <1>9, <3>1
  <2>6. \A j : HoldsShared(d, j) = 0
    BY <1>9 DEF HoldsShared
  <2>7. v.collecting = u.collecting /\ v.nextWb = u.nextWb
    BY <2>1 DEF Left
  <2>8. DOMAIN v.pending = DOMAIN u.pending \ {k}
    BY <1>9 DEF WithoutKey
  <2>9. Kinds(v)
    BY <1>1, <2>1, <2>2 DEF Kinds, Left
  <2>10. ASSUME NEW j \in Keys PROVE HeldAt(v, j)
    <3>1. HeldAt(u, j)
      BY <1>1, HeldEach
    <3>2. /\ HoldsShared(v.dispatch, j) = HoldsShared(u.dispatch, j)
          /\ HoldsShared(v.nextWb, j) = HoldsShared(u.nextWb, j)
          /\ HoldsShared(v.pipe[1], j) = HoldsShared(u.pipe[1], j)
          /\ HoldsShared(v.pipe[2], j) = HoldsShared(u.pipe[2], j)
          /\ HoldsShared(v.pipe[3], j) = HoldsShared(u.pipe[3], j)
          /\ Cardinality(LoadsOf(v.collecting, j)) = Cardinality(LoadsOf(u.collecting, j))
      BY <1>2, <2>1, <2>2, <2>6, <2>7
    <3>3. CASE j = k
      <4>1. Belongs(j, DOMAIN u.pending) = 1 /\ Belongs(j, u.reserved) \in {0, 1}
            /\ Belongs(j, DOMAIN v.pending) = 0 /\ Belongs(j, v.reserved) = 0
        BY <1>9, <2>5, <2>8, <3>3 DEF Belongs
      <4>2. /\ HoldsShared(u.nextWb, j) \in {0, 1} /\ HoldsShared(u.dispatch, j) \in {0, 1}
            /\ HoldsShared(u.pipe[1], j) \in {0, 1} /\ HoldsShared(u.pipe[2], j) \in {0, 1}
            /\ HoldsShared(u.pipe[3], j) \in {0, 1}
            /\ Cardinality(LoadsOf(u.collecting, j)) \in Nat
        BY <1>1, TermsNatural
      <4> QED BY <3>1, <3>2, <4>1, <4>2 DEF HeldAt
    <3>4. CASE j # k
      <4>1. Belongs(j, DOMAIN v.pending) = Belongs(j, DOMAIN u.pending)
            /\ Belongs(j, v.reserved) = Belongs(j, u.reserved)
        BY <1>9, <2>8, <3>4 DEF Belongs
      <4> QED BY <3>1, <3>2, <4>1 DEF HeldAt
    <3> QED BY <3>3, <3>4
  <2>11. Held(v)
    BY <2>10, HeldEach
  <2>12. Sound(v)
    BY <2>1, <2>2, <2>3, <2>5, <2>9, <2>11 DEF Sound, Left
  <2> QED BY <1>4, <1>6, <1>9, <2>1, <2>2, <2>3, <2>12 DEF Left
<1>10. CASE /\ d # None /\ ~ d.store /\ d.path = "shared" /\ u.pipe[3] = None
            /\ Left(u, v) /\ v.pipe = [u.pipe EXCEPT ![3] = d] /\ v.inPipe = u.inPipe
            /\ v.pending = u.pending /\ v.reserved = u.reserved
  <2>1. /\ Outstanding(v) = out /\ Places(v) /\ StoresCounted(v) /\ Between(v)
        /\ \A j : HoldsShared(v.dispatch, j) = 0 /\ Named(v.dispatch, j) = 0
        /\ Ahead(out, v.dispatch) /\ v.dispatch = None
    BY <1>2, <1>10, LeftKept DEF Left
  <2>2. u.pipe \in [1 .. 3 -> Instructions \cup {None}]
    BY <1>1, CoreFields
  <2>3. v.pipe[3] = d /\ v.pipe[1] = u.pipe[1] /\ v.pipe[2] = u.pipe[2]
    BY <1>10, <2>2
  <2>4. v.collecting = u.collecting /\ v.nextWb = u.nextWb
    BY <1>10 DEF Left
  <2>5. \A j : HoldsShared(u.pipe[3], j) = 0 /\ Named(u.pipe[3], j) = 0
    BY <1>10 DEF HoldsShared, Named
  <2>6. SharedLoad(d)
    BY <1>5, <1>10 DEF SharedLoad
  <2>7. Kinds(v)
    <3>1. ASSUME NEW i \in 1 .. 3, v.pipe[i] # None PROVE SharedLoad(v.pipe[i])
      <4>1. i = 1 \/ i = 2 \/ i = 3
        BY <3>1
      <4> QED BY <1>1, <2>3, <2>6, <3>1, <4>1 DEF Kinds
    <3> QED BY <1>1, <1>10, <2>1, <3>1 DEF Kinds, Left
  <2>8. ASSUME NEW j \in Keys PROVE HeldAt(v, j)
    <3>1. HeldAt(u, j)
      BY <1>1, HeldEach
    <3>2. /\ HoldsShared(v.dispatch, j) = 0 /\ HoldsShared(u.pipe[3], j) = 0
          /\ HoldsShared(v.pipe[3], j) = HoldsShared(u.dispatch, j)
          /\ HoldsShared(v.nextWb, j) = HoldsShared(u.nextWb, j)
          /\ HoldsShared(v.pipe[1], j) = HoldsShared(u.pipe[1], j)
          /\ HoldsShared(v.pipe[2], j) = HoldsShared(u.pipe[2], j)
          /\ Cardinality(LoadsOf(v.collecting, j)) = Cardinality(LoadsOf(u.collecting, j))
          /\ Belongs(j, DOMAIN v.pending) = Belongs(j, DOMAIN u.pending)
          /\ Belongs(j, v.reserved) = Belongs(j, u.reserved)
      BY <1>2, <1>10, <2>1, <2>3, <2>4, <2>5
    <3>3. /\ HoldsShared(u.nextWb, j) \in {0, 1} /\ HoldsShared(u.dispatch, j) \in {0, 1}
          /\ HoldsShared(u.pipe[1], j) \in {0, 1} /\ HoldsShared(u.pipe[2], j) \in {0, 1}
          /\ Belongs(j, DOMAIN u.pending) \in {0, 1} /\ Belongs(j, u.reserved) \in {0, 1}
          /\ Cardinality(LoadsOf(u.collecting, j)) \in Nat
      BY <1>1, TermsNatural
    <3> QED BY <3>1, <3>2, <3>3 DEF HeldAt
  <2>9. Held(v)
    BY <2>8, HeldEach
  <2>10. ASSUME NEW w \in Warps
         PROVE  v.inPipe[w] = Cardinality(CopiesOf(v.collecting, w)) + Named(v.dispatch, w)
                   + Named(v.pipe[1], w) + Named(v.pipe[2], w) + Named(v.pipe[3], w)
    <3>1. PICK n : n = Cardinality(CopiesOf(u.collecting, w))
      OBVIOUS
    <3>2. n \in Nat
      BY <1>1, <3>1, CopiesFinite
    <3>3. /\ Named(d, w) \in {0, 1} /\ Named(u.pipe[1], w) \in {0, 1}
          /\ Named(u.pipe[2], w) \in {0, 1}
      BY DEF Named
    <3>4. u.inPipe[w] = n + Named(d, w)
                + Named(u.pipe[1], w) + Named(u.pipe[2], w) + Named(u.pipe[3], w)
      BY <1>1, <1>2, <3>1 DEF PipeCounted
    <3>5. /\ Named(v.dispatch, w) = 0 /\ Named(u.pipe[3], w) = 0
          /\ Named(v.pipe[3], w) = Named(d, w) /\ Named(v.pipe[1], w) = Named(u.pipe[1], w)
          /\ Named(v.pipe[2], w) = Named(u.pipe[2], w) /\ v.inPipe[w] = u.inPipe[w]
      BY <1>10, <2>1, <2>3, <2>5
    <3>6. v.inPipe[w] = n + Named(v.dispatch, w)
                + Named(v.pipe[1], w) + Named(v.pipe[2], w) + Named(v.pipe[3], w)
      BY <3>2, <3>3, <3>4, <3>5
    <3> QED BY <2>4, <3>1, <3>6
  <2>11. PipeCounted(v)
    BY <2>10 DEF PipeCounted
  <2>12. Matches(v.pending, out, None)
    <3>1. ~ Answered(d)
      BY <1>5, <1>10
    <3> QED BY <1>3, <1>10, <3>1, MatchesOther
  <2>13. Sound(v)
    BY <1>10, <2>1, <2>7, <2>9, <2>11, <2>12 DEF Sound, Left
  <2>14. \A w \in Warps : v.inPipe[w] <= u.inPipe[w]
    <3>1. u.inPipe \in [Warps -> Int]
      BY <1>1, CoreFields
    <3> QED BY <1>10, <3>1
  <2> QED BY <1>4, <1>6, <1>10, <2>1, <2>13, <2>14 DEF Left
<1> QED BY <1>1, <1>2, <1>7, <1>8, <1>9, <1>10, LeaveFields

-----------------------------------------------------------------------------
(* The memory and the cluster.                                             *)

\* What is put into the response FIFO and where it comes from.
Replied(u, v, m) ==
  /\ v \in CoreRecords
  /\ v.collecting = u.collecting /\ v.dispatch = u.dispatch /\ v.pipe = u.pipe
  /\ v.tex = u.tex /\ v.waiting = u.waiting /\ v.ready = u.ready
  /\ v.nextGlobal = u.nextGlobal /\ v.nextWb = u.nextWb /\ v.pending = u.pending
  /\ v.reserved = u.reserved /\ v.stores = u.stores /\ v.inPipe = u.inPipe
  /\ m \in Accesses \cup Acks /\ v.fifo = Append(u.fifo, m)
  /\ \/ m \in u.reads /\ v.reads = u.reads \ {m} /\ v.writes = u.writes
     \/ /\ m \in Acks /\ v.reads = u.reads
        /\ v.writes = [u.writes EXCEPT ![m.warp] = @ - 1]

LEMMA ReadReplied ==
  ASSUME NEW u \in CoreRecords, NEW a \in u.reads, NEW v,
         v = [u EXCEPT !.reads = @ \ {a}, !.fifo = Append(@, a)]
  PROVE  Replied(u, v, a)
<1>1. PICK F, R : F = Append(u.fifo, a) /\ R = u.reads \ {a}
  OBVIOUS
<1>2. a \in Accesses
  BY CoreFields
<1>3. F \in Seq(Accesses \cup Acks) /\ R \subseteq Accesses
  <2>1. u.fifo \in Seq(Accesses \cup Acks) /\ u.reads \subseteq Accesses
    BY CoreFields
  <2> QED BY <1>1, <1>2, <2>1
<1>4. v = [u EXCEPT !.reads = R, !.fifo = F]
  BY <1>1 DEF CoreRecords
<1>5. v \in CoreRecords /\ v.reads = R /\ v.fifo = F
  BY <1>3, <1>4 DEF CoreRecords
<1>6. /\ v.collecting = u.collecting /\ v.dispatch = u.dispatch /\ v.pipe = u.pipe
      /\ v.tex = u.tex /\ v.waiting = u.waiting /\ v.ready = u.ready
      /\ v.nextGlobal = u.nextGlobal /\ v.nextWb = u.nextWb /\ v.pending = u.pending
      /\ v.reserved = u.reserved /\ v.stores = u.stores /\ v.inPipe = u.inPipe
      /\ v.writes = u.writes
  BY <1>4 DEF CoreRecords
<1> QED BY <1>1, <1>2, <1>5, <1>6 DEF Replied

LEMMA WriteReplied ==
  ASSUME NEW u \in CoreRecords, NEW w \in Warps, u.writes[w] > 0, NEW v,
         v = [u EXCEPT !.writes[w] = @ - 1, !.fifo = Append(@, [path |-> "ack", warp |-> w])]
  PROVE  Replied(u, v, [path |-> "ack", warp |-> w])
<1>1. PICK m : m = [path |-> "ack", warp |-> w]
  OBVIOUS
<1>2. PICK F, W : F = Append(u.fifo, m) /\ W = [u.writes EXCEPT ![w] = @ - 1]
  OBVIOUS
<1>3. m \in Acks /\ m.warp = w
  BY <1>1 DEF Acks
<1>4. F \in Seq(Accesses \cup Acks) /\ W \in [Warps -> Nat]
  <2>1. u.fifo \in Seq(Accesses \cup Acks) /\ u.writes \in [Warps -> Nat]
    BY CoreFields
  <2>2. u.writes[w] - 1 \in Nat
    BY <2>1
  <2> QED BY <1>2, <1>3, <2>1, <2>2
<1>5. v = [u EXCEPT !.writes = W, !.fifo = F]
  BY <1>1, <1>2 DEF CoreRecords
<1>6. v \in CoreRecords /\ v.writes = W /\ v.fifo = F
  BY <1>4, <1>5 DEF CoreRecords
<1>7. /\ v.collecting = u.collecting /\ v.dispatch = u.dispatch /\ v.pipe = u.pipe
      /\ v.tex = u.tex /\ v.waiting = u.waiting /\ v.ready = u.ready
      /\ v.nextGlobal = u.nextGlobal /\ v.nextWb = u.nextWb /\ v.pending = u.pending
      /\ v.reserved = u.reserved /\ v.stores = u.stores /\ v.inPipe = u.inPipe
      /\ v.reads = u.reads
  BY <1>5 DEF CoreRecords
<1>8. Replied(u, v, m)
  BY <1>2, <1>3, <1>6, <1>7 DEF Replied
<1> QED BY <1>1, <1>8

LEMMA RepliedKeeps ==
  ASSUME NEW u, Sound(u), Between(u), NEW v, NEW m, Replied(u, v, m)
  PROVE  Keeps(u, v) /\ Between(v) /\ v.dispatch = u.dispatch
<1>1. u \in CoreRecords /\ Kinds(u) /\ Places(u) /\ Held(u) /\ StoresCounted(u) /\ PipeCounted(u)
  BY DEF Sound
<1>2. /\ v \in CoreRecords
      /\ v.collecting = u.collecting /\ v.dispatch = u.dispatch /\ v.pipe = u.pipe
      /\ v.tex = u.tex /\ v.waiting = u.waiting /\ v.ready = u.ready
      /\ v.nextGlobal = u.nextGlobal /\ v.nextWb = u.nextWb /\ v.pending = u.pending
      /\ v.reserved = u.reserved /\ v.stores = u.stores /\ v.inPipe = u.inPipe
      /\ m \in Accesses \cup Acks
  BY DEF Replied
<1>3. PICK f, g : f = u.fifo /\ g = v.fifo
  OBVIOUS
<1>4. f \in Seq(Accesses \cup Acks) /\ g = Append(f, m)
  BY <1>1, <1>3, CoreFields DEF Replied
<1>5. PICK n \in Nat : n = Len(f) /\ DOMAIN f = 1 .. n
  BY <1>4
<1>6. /\ DOMAIN g = 1 .. n + 1 /\ g[n + 1] = m /\ \A i \in 1 .. n : g[i] = f[i]
      /\ 1 .. n + 1 = (1 .. n) \cup {n + 1} /\ n + 1 \notin 1 .. n
  BY <1>2, <1>4, <1>5
<1>7. \A a \in Acks : a.path = "ack"
  BY DEF Acks
<1>8. \A a \in Accesses : a.path # "ack"
  BY AccessAnswered
<1>9. \/ m \in Accesses /\ m \in u.reads /\ v.reads = u.reads \ {m} /\ v.writes = u.writes
      \/ /\ m \in Acks /\ v.reads = u.reads
         /\ v.writes = [u.writes EXCEPT ![m.warp] = @ - 1]
  BY <1>1, CoreFields DEF Replied
<1>10. ASSUME NEW a PROVE a \in Requests(v) <=> a \in Requests(u)
  <2>1. a \in Requests(v) <=> a \in v.reads \/ \E i \in DOMAIN g : g[i] = a /\ a.path # "ack"
    BY <1>2, <1>3, RequestsAre
  <2>2. a \in Requests(u) <=> a \in u.reads \/ \E i \in DOMAIN f : f[i] = a /\ a.path # "ack"
    BY <1>1, <1>3, RequestsAre
  <2>3. (\E i \in DOMAIN g : g[i] = a /\ a.path # "ack")
          <=> (a = m /\ a.path # "ack") \/ \E i \in DOMAIN f : f[i] = a /\ a.path # "ack"
    BY <1>5, <1>6
  <2> QED BY <1>7, <1>8, <1>9, <2>1, <2>2, <2>3
<1>11. Requests(v) = Requests(u)
  BY <1>10
<1>12. Kinds(v)
  BY <1>1, <1>2 DEF Kinds
<1>13. Outstanding(v) = Outstanding(u)
  <2>1. ASSUME NEW b
        PROVE  b \in Outstanding(v) <=>
              \/ b \in u.waiting \/ b \in u.ready \/ b \in Requests(u)
              \/ \E i \in DOMAIN u.tex : u.tex[i].access = b
              \/ b = u.nextGlobal /\ b # None
              \/ b = u.nextWb /\ b \in Accesses
    BY <1>2, <1>11, <1>12, OutstandingIs
  <2>2. ASSUME NEW b
        PROVE  b \in Outstanding(u) <=>
              \/ b \in u.waiting \/ b \in u.ready \/ b \in Requests(u)
              \/ \E i \in DOMAIN u.tex : u.tex[i].access = b
              \/ b = u.nextGlobal /\ b # None
              \/ b = u.nextWb /\ b \in Accesses
    BY <1>1, OutstandingIs
  <2> QED BY <2>1, <2>2
<1>14. Places(v)
  <2>1. \A i \in 1 .. n : f[i] \notin u.reads
    BY <1>1, <1>3, <1>5 DEF Places
  <2>2. \A i, j \in 1 .. n : f[i].path # "ack" /\ f[i] = f[j] => i = j
    BY <1>1, <1>3, <1>5 DEF Places
  <2>3. \A i \in DOMAIN g : g[i] \notin v.reads
    <3>1. m \notin v.reads
      <4>1. u.reads \subseteq Accesses
        BY <1>1, CoreFields
      <4> QED BY <1>7, <1>8, <1>9, <4>1
    <3> QED BY <1>6, <1>9, <2>1, <3>1
  <2>4. \A i, j \in DOMAIN g : g[i].path # "ack" /\ g[i] = g[j] => i = j
    <3>1. \A i \in 1 .. n : m.path # "ack" => f[i] # m
      BY <1>7, <1>9, <2>1
    <3> QED BY <1>6, <2>2, <3>1
  <2> QED BY <1>1, <1>2, <1>3, <1>11, <1>13, <2>3, <2>4 DEF Places
<1>15. Held(v) /\ PipeCounted(v)
  BY <1>1, <1>2 DEF Held, PipeCounted
<1>16. StoresCounted(v)
  <2>1. ASSUME NEW w \in Warps PROVE v.stores[w] = v.writes[w] + Cardinality(AcksOf(v.fifo, w))
    <3>1. PICK x, y : x = Cardinality(AcksOf(f, w)) /\ y = Cardinality(AcksOf(g, w))
      OBVIOUS
    <3>2. x \in Nat /\ y = x + AckAt(m, w)
      BY <1>2, <1>4, <3>1, AcksFinite, AcksAppend
    <3>3. v.writes[w] = u.writes[w] - AckAt(m, w) /\ u.writes[w] \in Nat
      <4>1. u.writes \in [Warps -> Nat]
        BY <1>1, CoreFields
      <4>2. m \in Acks => m.warp \in Warps
        BY DEF Acks
      <4> QED BY <1>7, <1>8, <1>9, <4>1, <4>2 DEF AckAt
    <3>4. u.stores[w] = u.writes[w] + x
      BY <1>1, <1>3, <3>1 DEF StoresCounted
    <3>5. AckAt(m, w) \in {0, 1}
      BY DEF AckAt
    <3>6. v.stores[w] = v.writes[w] + y
      BY <1>2, <3>2, <3>3, <3>4, <3>5
    <3> QED BY <1>3, <3>1, <3>6
  <2> QED BY <2>1 DEF StoresCounted
<1>17. Sound(v) /\ Between(v)
  BY <1>2, <1>12, <1>13, <1>14, <1>15, <1>16, RestSound
<1>18. \A w \in Warps : Drained(u, w) => Drained(v, w)
  BY <1>2 DEF Drained
<1> QED BY <1>2, <1>17, <1>18 DEF Keeps

-----------------------------------------------------------------------------
(* A whole cycle.                                                          *)

LEMMA CycleKeeps ==
  ASSUME NEW u, Sound(u), Between(u), NEW c, NEW bank, NEW fill, NEW port,
         NEW written, written = IF bank /\ u.nextWb # None THEN Written(u) ELSE u,
         NEW handed \in NextWriteback(written), NEW answered,
         answered = Respond(MovePipe(handed), fill), NEW stages,
         NEW x \in Accessed(c, answered, stages, port)
  PROVE  /\ Sound(answered) /\ answered.dispatch = u.dispatch
         /\ Keeps(u, Leave(x[1], port)) /\ Between(Leave(x[1], port))
<1>1. Keeps(u, written) /\ Between(written) /\ written.dispatch = u.dispatch
  <2>1. CASE bank /\ u.nextWb # None
    BY <2>1, WrittenKeeps
  <2>2. CASE ~ (bank /\ u.nextWb # None)
    BY <2>2 DEF Keeps
  <2> QED BY <2>1, <2>2
<1>2. Keeps(written, handed) /\ Between(handed) /\ handed.dispatch = u.dispatch
  <2>1. Sound(written)
    BY <1>1 DEF Keeps
  <2> HIDE <1>1
  <2>2. Between(written) /\ written.dispatch = u.dispatch
    BY <1>1
  <2> QED BY <2>1, <2>2, NextWritebackKeeps
<1>3. PICK moved : moved = MovePipe(handed)
  OBVIOUS
<1>4. Keeps(handed, moved) /\ Between(moved) /\ moved.dispatch = u.dispatch
  <2>1. Sound(handed)
    BY <1>2 DEF Keeps
  <2> QED BY <1>2, <1>3, <2>1, MovePipeKeeps
<1>5. Keeps(moved, answered) /\ Between(answered) /\ answered.dispatch = u.dispatch
  <2>1. Sound(moved)
    BY <1>4 DEF Keeps
  <2> QED BY <1>3, <1>4, <2>1, RespondKeeps
<1>6. Sound(answered)
  BY <1>5 DEF Keeps
<1>7. Keeps(answered, x[1])
  BY <1>6, AccessedKeeps
<1>8. Keeps(x[1], Leave(x[1], port)) /\ Between(Leave(x[1], port))
  <2>1. Sound(x[1])
    BY <1>7 DEF Keeps
  <2> QED BY <2>1, LeaveKeeps
<1>9. ASSUME NEW w \in Warps, Drained(u, w) PROVE Drained(Leave(x[1], port), w)
  BY <1>1, <1>2, <1>4, <1>5, <1>7, <1>8, <1>9 DEF Keeps
<1> QED BY <1>5, <1>6, <1>8, <1>9 DEF Keeps

-----------------------------------------------------------------------------
(* The operand collector, a bag of instructions.                           *)

LEMMA CopiesIs ==
  ASSUME NEW B, NEW x
  PROVE  x \in Copies(B) <=> \E d \in DOMAIN B : \E n \in 1 .. B[d] : x = <<d, n>>
<1>1. x \in Copies(B) <=> \E d \in DOMAIN B : x \in {d} \X (1 .. B[d])
  BY DEF Copies, BagToSet
<1> QED BY <1>1

\* A copy more or less in a bag.
Plus(C, B, d) == C = B (+) SetToBag({d})
Minus(C, B, d) == C = B (-) SetToBag({d})

LEMMA CopiesAdd ==
  ASSUME NEW B \in Collections, NEW d \in Instructions, NEW C, Plus(C, B, d)
  PROVE  /\ C \in Collections /\ DOMAIN C = DOMAIN B \cup {d}
         /\ \E x : x \notin Copies(B) /\ x[1] = d /\ Copies(C) = Copies(B) \cup {x}
<1>1. B \in [DOMAIN B -> Nat \ {0}] /\ DOMAIN B \subseteq Instructions
  BY CollectionsAre
<1>2. PICK m \in Nat : m = (IF d \in DOMAIN B THEN B[d] ELSE 0)
  BY <1>1
<1>3. /\ DOMAIN C = DOMAIN B \cup {d} /\ C[d] = m + 1
      /\ \A y \in DOMAIN B \ {d} : C[y] = B[y]
      /\ C = [y \in DOMAIN C |-> C[y]]
  <2>1. C = [e \in DOMAIN B \cup {d} |->
               (IF e \in DOMAIN B THEN B[e] ELSE 0) + (IF e \in {d} THEN 1 ELSE 0)]
    BY DEF (+), SetToBag, Plus
  <2>2. DOMAIN C = DOMAIN B \cup {d}
    BY <2>1
  <2>3. ASSUME NEW y \in DOMAIN B, y # d PROVE C[y] = B[y]
    <3>1. B[y] \in Nat
      BY <1>1, <2>3
    <3>2. C[y] = B[y] + 0
      BY <2>1, <2>3
    <3> QED BY <3>1, <3>2
  <2>4. C[d] = m + 1
    BY <1>2, <2>1
  <2> QED BY <2>1, <2>2, <2>3, <2>4
<1>4. C \in Collections
  <2>1. \A y \in DOMAIN C : C[y] \in Nat \ {0}
    BY <1>1, <1>2, <1>3
  <2>2. C \in [DOMAIN C -> Nat \ {0}] /\ DOMAIN C \subseteq Instructions
    BY <1>1, <1>3, <2>1
  <2> QED BY <2>2, CollectionsAre
<1>5. PICK x : x = <<d, m + 1>>
  OBVIOUS
<1>6. x \notin Copies(B)
  <2> SUFFICES ASSUME NEW e \in DOMAIN B, NEW n \in 1 .. B[e], x = <<e, n>> PROVE FALSE
    BY CopiesIs
  <2>1. e = d /\ n = m + 1 /\ n <= m
    BY <1>1, <1>2, <1>5
  <2> QED BY <1>2, <2>1
<1>7. ASSUME NEW y PROVE y \in Copies(C) <=> y \in Copies(B) \/ y = x
  <2>1. ASSUME NEW e \in DOMAIN B, NEW n \in 1 .. B[e], y = <<e, n>> PROVE y \in Copies(C)
    <3>1. n \in 1 .. C[e] /\ e \in DOMAIN C
      <4>1. CASE e = d
        BY <1>1, <1>2, <1>3, <2>1, <4>1
      <4>2. CASE e # d
        BY <1>3, <2>1, <4>2
      <4> QED BY <4>1, <4>2
    <3> QED BY <2>1, <3>1, CopiesIs
  <2>2. ASSUME y = x PROVE y \in Copies(C)
    <3>1. d \in DOMAIN C /\ m + 1 \in 1 .. C[d]
      BY <1>2, <1>3
    <3> QED BY <1>5, <2>2, <3>1, CopiesIs
  <2>3. ASSUME NEW e \in DOMAIN C, NEW n \in 1 .. C[e], y = <<e, n>>, y # x
        PROVE  y \in Copies(B)
    <3>1. e \in DOMAIN B /\ n \in 1 .. B[e]
      <4>1. CASE e = d
        <5>1. n \in 1 .. m + 1 /\ n # m + 1
          BY <1>3, <1>5, <2>3, <4>1
        <5>2. n \in 1 .. m
          BY <1>2, <5>1
        <5> QED BY <1>2, <4>1, <5>2
      <4>2. CASE e # d
        BY <1>3, <2>3, <4>2
      <4> QED BY <4>1, <4>2
    <3> QED BY <2>3, <3>1, CopiesIs
  <2> QED BY <2>1, <2>2, <2>3, CopiesIs
<1>8. Copies(C) = Copies(B) \cup {x}
  BY <1>7
<1> QED BY <1>3, <1>4, <1>5, <1>6, <1>8

LEMMA CopiesRemove ==
  ASSUME NEW B \in Collections, NEW d \in DOMAIN B, NEW C, Minus(C, B, d)
  PROVE  /\ C \in Collections /\ DOMAIN C \subseteq DOMAIN B
         /\ \E x \in Copies(B) : x[1] = d /\ Copies(C) = Copies(B) \ {x}
<1>1. B \in [DOMAIN B -> Nat \ {0}] /\ DOMAIN B \subseteq Instructions
  BY CollectionsAre
<1>2. PICK m \in Nat : m = B[d] - 1 /\ B[d] = m + 1
  <2>1. B[d] \in Nat /\ B[d] # 0
    BY <1>1
  <2> QED BY <2>1
<1>3. PICK F : F = [e \in DOMAIN B |-> IF e \in {d} THEN B[e] - 1 ELSE B[e]]
  OBVIOUS
<1>4. C = [e \in {y \in DOMAIN B : F[y] > 0} |-> F[e]]
  BY <1>3 DEF (-), SetToBag, Minus
<1>5. \A y \in DOMAIN B : B[y] \in Nat /\ B[y] > 0
  BY <1>1
<1>6. \A y \in DOMAIN B : F[y] = IF y = d THEN m ELSE B[y]
  BY <1>2, <1>3
<1>7. /\ DOMAIN C \subseteq DOMAIN B
      /\ \A y \in DOMAIN B : y # d => y \in DOMAIN C
      /\ \A y \in DOMAIN C : C[y] \in Nat /\ C[y] > 0
      /\ \A y \in DOMAIN C : y # d => C[y] = B[y]
      /\ d \in DOMAIN C => C[d] = m
      /\ d \notin DOMAIN C => m = 0
      /\ C = [y \in DOMAIN C |-> C[y]]
  <2>1. DOMAIN C = {y \in DOMAIN B : F[y] > 0}
    BY <1>4
  <2>2. \A y \in DOMAIN C : C[y] = F[y]
    BY <1>4, <2>1
  <2>3. C = [y \in DOMAIN C |-> C[y]]
    BY <1>4
  <2> HIDE <1>3, <1>4
  <2> QED BY <1>5, <1>6, <2>1, <2>2, <2>3
<1> HIDE <1>3, <1>4
<1>8. C \in Collections
  <2>1. C \in [DOMAIN C -> Nat \ {0}] /\ DOMAIN C \subseteq Instructions
    BY <1>1, <1>7
  <2> QED BY <2>1, CollectionsAre
<1>9. PICK x : x = <<d, m + 1>>
  OBVIOUS
<1>10. x \in Copies(B) /\ x[1] = d
  <2>1. m + 1 \in 1 .. B[d]
    BY <1>2
  <2> QED BY <1>9, <2>1, CopiesIs
<1>11. ASSUME NEW y PROVE y \in Copies(C) <=> y \in Copies(B) /\ y # x
  <2>1. ASSUME NEW e \in DOMAIN C, NEW n \in 1 .. C[e], y = <<e, n>>
        PROVE  y \in Copies(B) /\ y # x
    <3>1. e \in DOMAIN B /\ n \in 1 .. B[e] /\ (e = d => n # m + 1)
      <4>1. CASE e = d
        <5>1. n \in 1 .. m /\ B[e] = m + 1
          BY <1>2, <1>7, <2>1, <4>1
        <5>2. n \in 1 .. m + 1 /\ n # m + 1
          BY <1>2, <5>1
        <5> QED BY <1>7, <2>1, <5>1, <5>2
      <4>2. CASE e # d
        BY <1>7, <2>1, <4>2
      <4> QED BY <4>1, <4>2
    <3> QED BY <1>9, <2>1, <3>1, CopiesIs
  <2>2. ASSUME NEW e \in DOMAIN B, NEW n \in 1 .. B[e], y = <<e, n>>, y # x
        PROVE  y \in Copies(C)
    <3>1. e \in DOMAIN C /\ n \in 1 .. C[e]
      <4>1. CASE e = d
        <5>1. n \in 1 .. m + 1 /\ n # m + 1
          BY <1>2, <1>9, <2>2, <4>1
        <5>2. n \in 1 .. m
          BY <1>2, <5>1
        <5> QED BY <1>7, <4>1, <5>2
      <4>2. CASE e # d
        BY <1>7, <2>2, <4>2
      <4> QED BY <4>1, <4>2
    <3> QED BY <2>2, <3>1, CopiesIs
  <2> QED BY <2>1, <2>2, CopiesIs
<1>12. Copies(C) = Copies(B) \ {x}
  BY <1>11
<1> QED BY <1>7, <1>8, <1>10, <1>12

\* What one copy more adds to the counts.
CountedMore(B, C, d, w, k) ==
  /\ IsFiniteSet(Copies(C))
  /\ Cardinality(CopiesOf(B, w)) \in Nat /\ Cardinality(LoadsOf(B, k)) \in Nat
  /\ Cardinality(CopiesOf(C, w))
       = Cardinality(CopiesOf(B, w)) + (IF d.warp = w THEN 1 ELSE 0)
  /\ Cardinality(LoadsOf(C, k))
       = Cardinality(LoadsOf(B, k)) + (IF ~ d.store /\ Key(d) = k THEN 1 ELSE 0)

LEMMA CopiesMore ==
  ASSUME NEW B, NEW C, IsFiniteSet(Copies(B)), NEW d, NEW x, x \notin Copies(B), x[1] = d,
         \A y : y \in Copies(C) <=> y \in Copies(B) \/ y = x, NEW w, NEW k
  PROVE  CountedMore(B, C, d, w, k)
<1>1. IsFiniteSet(Copies(C))
  <2>1. Copies(C) = Copies(B) \cup {x}
    OBVIOUS
  <2> QED BY <2>1, FS_AddElement
<1>2. /\ IsFiniteSet(CopiesOf(B, w)) /\ IsFiniteSet(LoadsOf(B, k))
      /\ Cardinality(CopiesOf(B, w)) \in Nat /\ Cardinality(LoadsOf(B, k)) \in Nat
  <2>1. CopiesOf(B, w) \in SUBSET Copies(B) /\ LoadsOf(B, k) \in SUBSET Copies(B)
    BY DEF CopiesOf, LoadsOf
  <2> QED BY <2>1, FS_Subset, FS_CardinalityType
<1>3. Cardinality(CopiesOf(C, w))
        = Cardinality(CopiesOf(B, w)) + (IF d.warp = w THEN 1 ELSE 0)
  <2>1. CASE d.warp = w
    <3>1. CopiesOf(C, w) = CopiesOf(B, w) \cup {x} /\ x \notin CopiesOf(B, w)
      BY <2>1 DEF CopiesOf
    <3>2. Cardinality(CopiesOf(B, w) \cup {x}) = Cardinality(CopiesOf(B, w)) + 1
      BY <1>2, <3>1, FS_AddElement
    <3> QED BY <2>1, <3>1, <3>2
  <2>2. CASE d.warp # w
    <3>1. CopiesOf(C, w) = CopiesOf(B, w)
      BY <2>2 DEF CopiesOf
    <3> QED BY <1>2, <2>2, <3>1
  <2> QED BY <2>1, <2>2
<1>4. Cardinality(LoadsOf(C, k))
        = Cardinality(LoadsOf(B, k)) + (IF ~ d.store /\ Key(d) = k THEN 1 ELSE 0)
  <2>1. CASE ~ d.store /\ Key(d) = k
    <3>1. LoadsOf(C, k) = LoadsOf(B, k) \cup {x} /\ x \notin LoadsOf(B, k)
      BY <2>1 DEF LoadsOf
    <3>2. Cardinality(LoadsOf(B, k) \cup {x}) = Cardinality(LoadsOf(B, k)) + 1
      BY <1>2, <3>1, FS_AddElement
    <3> QED BY <2>1, <3>1, <3>2
  <2>2. CASE ~ (~ d.store /\ Key(d) = k)
    <3>1. LoadsOf(C, k) = LoadsOf(B, k)
      BY <2>2 DEF LoadsOf
    <3> QED BY <1>2, <2>2, <3>1
  <2> QED BY <2>1, <2>2
<1> QED BY <1>1, <1>2, <1>3, <1>4 DEF CountedMore

-----------------------------------------------------------------------------
(* Instructions come to the operand collector and from it to the unit.     *)

\* What an issue leaves alone.
Issued(u, v, d) ==
  /\ v \in CoreRecords /\ v.dispatch = u.dispatch /\ v.pipe = u.pipe /\ v.fifo = u.fifo
  /\ v.tex = u.tex /\ v.waiting = u.waiting /\ v.ready = u.ready
  /\ v.nextGlobal = u.nextGlobal /\ v.nextWb = u.nextWb /\ v.pending = u.pending
  /\ v.stores = u.stores /\ v.reads = u.reads /\ v.writes = u.writes
  /\ v.collecting = u.collecting (+) SetToBag({d})
  /\ v.reserved = (IF d.store THEN u.reserved ELSE u.reserved \cup {Key(d)})
  /\ v.inPipe = [u.inPipe EXCEPT ![d.warp] = @ + 1]

IssuedWith(u, v, C, R, I) ==
  /\ C \in Collections /\ R \subseteq Keys /\ I \in [Warps -> Int]
  /\ v = [u EXCEPT !.collecting = C, !.reserved = R, !.inPipe = I]

LEMMA IssueTypes ==
  ASSUME NEW u \in CoreRecords, NEW C, NEW R, NEW I, NEW v, IssuedWith(u, v, C, R, I)
  PROVE  v \in CoreRecords /\ v.collecting = C /\ v.reserved = R /\ v.inPipe = I
BY DEF CoreRecords, IssuedWith

IssueOf(u, v, d, reserved) ==
  /\ reserved = (IF d.store THEN u.reserved ELSE u.reserved \cup {Key(d)})
  /\ v = [u EXCEPT !.collecting = @ (+) SetToBag({d}), !.reserved = reserved,
                   !.inPipe[d.warp] = @ + 1]

LEMMA IssueFields ==
  ASSUME NEW u \in CoreRecords, NEW d \in Instructions, NEW reserved, NEW v,
         IssueOf(u, v, d, reserved)
  PROVE  Issued(u, v, d)
<1>1. PICK C, I : C = u.collecting (+) SetToBag({d}) /\ I = [u.inPipe EXCEPT ![d.warp] = @ + 1]
  OBVIOUS
<1>2. C \in Collections
  <2>1. u.collecting \in Collections
    BY CoreFields
  <2>2. Plus(C, u.collecting, d)
    BY <1>1 DEF Plus
  <2> QED BY <2>1, <2>2, CopiesAdd
<1>3. reserved = (IF d.store THEN u.reserved ELSE u.reserved \cup {Key(d)})
  BY DEF IssueOf
<1>4. I \in [Warps -> Int] /\ reserved \subseteq Keys
  <2>1. u.inPipe \in [Warps -> Int] /\ u.reserved \subseteq Keys
    BY CoreFields
  <2>2. d.warp \in Warps /\ Key(d) \in Keys
    BY InstructionAnswered
  <2> QED BY <1>1, <1>3, <2>1, <2>2
<1>5. v = [u EXCEPT !.collecting = C, !.reserved = reserved, !.inPipe = I]
  BY <1>1 DEF CoreRecords, IssueOf
<1> HIDE <1>1, <1>3
<1>6. v \in CoreRecords /\ v.collecting = C /\ v.reserved = reserved /\ v.inPipe = I
  <2>1. IssuedWith(u, v, C, reserved, I)
    BY <1>2, <1>4, <1>5, Zenon DEF IssuedWith
  <2> QED BY <2>1, IssueTypes
<1>7. /\ v.dispatch = u.dispatch /\ v.pipe = u.pipe /\ v.fifo = u.fifo
      /\ v.tex = u.tex /\ v.waiting = u.waiting /\ v.ready = u.ready
      /\ v.nextGlobal = u.nextGlobal /\ v.nextWb = u.nextWb /\ v.pending = u.pending
      /\ v.stores = u.stores /\ v.reads = u.reads /\ v.writes = u.writes
  BY <1>5 DEF CoreRecords
<1> QED BY <1>1, <1>3, <1>6, <1>7 DEF Issued

LEMMA IssuedKeeps ==
  ASSUME NEW u, Sound(u), Between(u), NEW d, Legal(d), Key(d) \notin u.reserved,
         NEW v, Issued(u, v, d)
  PROVE  /\ Sound(v) /\ Between(v)
         /\ \A w \in Warps : w # d.warp /\ Drained(u, w) => Drained(v, w)
<1>1. u \in CoreRecords /\ Kinds(u) /\ Places(u) /\ Held(u) /\ StoresCounted(u) /\ PipeCounted(u)
  BY DEF Sound
<1>2. /\ v \in CoreRecords /\ v.dispatch = u.dispatch /\ v.pipe = u.pipe /\ v.fifo = u.fifo
      /\ v.tex = u.tex /\ v.waiting = u.waiting /\ v.ready = u.ready
      /\ v.nextGlobal = u.nextGlobal /\ v.nextWb = u.nextWb /\ v.pending = u.pending
      /\ v.stores = u.stores /\ v.reads = u.reads /\ v.writes = u.writes
      /\ v.reserved = (IF d.store THEN u.reserved ELSE u.reserved \cup {Key(d)})
  BY DEF Issued
<1>3. d \in Instructions /\ d # None /\ d.warp \in Warps /\ Key(d) \in Keys
  BY InstructionAnswered DEF Legal
<1>4. PICK B, C : B = u.collecting /\ C = v.collecting
  OBVIOUS
<1>5. B \in Collections /\ Plus(C, B, d)
  BY <1>1, <1>4, CoreFields DEF Issued, Plus
<1>6. PICK x : /\ DOMAIN C = DOMAIN B \cup {d} /\ x \notin Copies(B) /\ x[1] = d
               /\ Copies(C) = Copies(B) \cup {x}
  <2>1. /\ DOMAIN C = DOMAIN B \cup {d}
        /\ \E x : x \notin Copies(B) /\ x[1] = d /\ Copies(C) = Copies(B) \cup {x}
    BY <1>3, <1>5, CopiesAdd, SMT
  <2> QED BY <2>1, Zenon
<1> HIDE <1>5
<1>7. IsFiniteSet(Copies(B))
  BY <1>1, <1>4 DEF Kinds
<1>8. ASSUME NEW w, NEW k
      PROVE  /\ IsFiniteSet(Copies(C))
             /\ Cardinality(CopiesOf(B, w)) \in Nat /\ Cardinality(LoadsOf(B, k)) \in Nat
             /\ Cardinality(CopiesOf(C, w))
                  = Cardinality(CopiesOf(B, w)) + (IF d.warp = w THEN 1 ELSE 0)
             /\ Cardinality(LoadsOf(C, k))
                  = Cardinality(LoadsOf(B, k)) + (IF ~ d.store /\ Key(d) = k THEN 1 ELSE 0)
  <2>1. CountedMore(B, C, d, w, k)
    <3>1. x \notin Copies(B) /\ \A y : y \in Copies(C) <=> y \in Copies(B) \/ y = x
      BY <1>6
    <3>2. x[1] = d
      BY <1>6
    <3> QED BY <1>7, <3>1, <3>2, CopiesMore
  <2> QED BY <2>1 DEF CountedMore
<1>9. Kinds(v)
  <2>1. IsFiniteSet(Copies(v.collecting))
    BY <1>4, <1>8
  <2>2. \A e \in DOMAIN v.collecting : Legal(e)
    BY <1>1, <1>4, <1>6 DEF Kinds
  <2> QED BY <1>1, <1>2, <2>1, <2>2 DEF Kinds
<1>10. Outstanding(v) = Outstanding(u) /\ Places(v)
  BY <1>1, <1>2, OutstandingSame
<1>11. Held(v)
  <2>1. ASSUME NEW k \in Keys PROVE HeldAt(v, k)
    <3>1. HeldAt(u, k)
      BY <1>1, HeldEach
    <3>2. PICK m : m = Cardinality(LoadsOf(B, k))
      OBVIOUS
    <3>3. m \in Nat
      BY <1>8, <3>2
    <3>4. Cardinality(LoadsOf(C, k)) = m + (IF ~ d.store /\ Key(d) = k THEN 1 ELSE 0)
      BY <1>8, <3>2
    <3>5. Belongs(k, v.reserved)
            = Belongs(k, u.reserved) + (IF ~ d.store /\ Key(d) = k THEN 1 ELSE 0)
      BY <1>2 DEF Belongs
    <3>6. PICK n \in {0, 1} : n = (IF ~ d.store /\ Key(d) = k THEN 1 ELSE 0)
      OBVIOUS
    <3>7. /\ Cardinality(LoadsOf(v.collecting, k)) = m + n
          /\ Cardinality(LoadsOf(u.collecting, k)) = m
          /\ Belongs(k, v.reserved) = Belongs(k, u.reserved) + n
      BY <1>4, <3>2, <3>4, <3>5, <3>6
    <3>8. /\ HoldsShared(u.nextWb, k) \in {0, 1} /\ HoldsShared(u.dispatch, k) \in {0, 1}
          /\ HoldsShared(u.pipe[1], k) \in {0, 1} /\ HoldsShared(u.pipe[2], k) \in {0, 1}
          /\ HoldsShared(u.pipe[3], k) \in {0, 1}
          /\ Belongs(k, DOMAIN u.pending) \in {0, 1} /\ Belongs(k, u.reserved) \in {0, 1}
      BY <1>1, TermsNatural
    <3>9. /\ HoldsShared(v.nextWb, k) = HoldsShared(u.nextWb, k)
          /\ HoldsShared(v.dispatch, k) = HoldsShared(u.dispatch, k)
          /\ HoldsShared(v.pipe[1], k) = HoldsShared(u.pipe[1], k)
          /\ HoldsShared(v.pipe[2], k) = HoldsShared(u.pipe[2], k)
          /\ HoldsShared(v.pipe[3], k) = HoldsShared(u.pipe[3], k)
          /\ Belongs(k, DOMAIN v.pending) = Belongs(k, DOMAIN u.pending)
      BY <1>2
    <3> HIDE <3>2, <3>4, <3>5, <3>6
    <3> QED BY <3>1, <3>3, <3>6, <3>7, <3>8, <3>9 DEF HeldAt
  <2> QED BY <2>1, HeldEach
<1>12. u.inPipe \in [Warps -> Int] /\ v.inPipe = [u.inPipe EXCEPT ![d.warp] = @ + 1]
  BY <1>1, CoreFields DEF Issued
<1>13. PipeCounted(v)
  <2>1. ASSUME NEW w \in Warps
        PROVE  v.inPipe[w] = Cardinality(CopiesOf(v.collecting, w)) + Named(v.dispatch, w)
                 + Named(v.pipe[1], w) + Named(v.pipe[2], w) + Named(v.pipe[3], w)
    <3>1. PICK m : m = Cardinality(CopiesOf(B, w))
      OBVIOUS
    <3>2. PICK n \in {0, 1} : n = (IF d.warp = w THEN 1 ELSE 0)
      OBVIOUS
    <3>3. m \in Nat /\ Cardinality(CopiesOf(v.collecting, w)) = m + n
      BY <1>4, <1>8, <3>1, <3>2
    <3>4. u.inPipe[w] = m + Named(u.dispatch, w)
            + Named(u.pipe[1], w) + Named(u.pipe[2], w) + Named(u.pipe[3], w)
      BY <1>1, <1>4, <3>1 DEF PipeCounted
    <3>5. v.inPipe[w] = u.inPipe[w] + n
      BY <1>3, <1>12, <3>2
    <3>6. /\ Named(u.dispatch, w) \in {0, 1} /\ Named(u.pipe[1], w) \in {0, 1}
          /\ Named(u.pipe[2], w) \in {0, 1} /\ Named(u.pipe[3], w) \in {0, 1}
      BY DEF Named
    <3>7. v.inPipe[w] = (m + n) + Named(u.dispatch, w)
            + Named(u.pipe[1], w) + Named(u.pipe[2], w) + Named(u.pipe[3], w)
      BY <3>2, <3>3, <3>4, <3>5, <3>6
    <3> QED BY <1>2, <3>3, <3>7
  <2> QED BY <2>1 DEF PipeCounted
<1>14. StoresCounted(v)
  BY <1>1, <1>2, StoresSame
<1>15. Sound(v) /\ Between(v)
  BY <1>2, <1>9, <1>10, <1>11, <1>13, <1>14, RestSound
<1>16. ASSUME NEW w \in Warps, w # d.warp, Drained(u, w) PROVE Drained(v, w)
  <2>1. v.inPipe[w] = u.inPipe[w]
    BY <1>12, <1>16
  <2>2. \A r \in Regs : <<w, r>> \notin v.reserved
    <3>1. \A r : <<w, r>> # Key(d)
      BY <1>16 DEF Key
    <3> QED BY <1>2, <1>16, <3>1 DEF Drained
  <2> QED BY <1>2, <1>16, <2>1, <2>2 DEF Drained
<1> QED BY <1>15, <1>16

\* What the move into m_dispatch_reg leaves alone.
Dispatched(u, v, d) ==
  /\ v \in CoreRecords /\ v.dispatch = d /\ v.pipe = u.pipe /\ v.fifo = u.fifo
  /\ v.tex = u.tex /\ v.waiting = u.waiting /\ v.ready = u.ready
  /\ v.nextGlobal = u.nextGlobal /\ v.nextWb = u.nextWb
  /\ v.reserved = u.reserved /\ v.stores = u.stores /\ v.inPipe = u.inPipe
  /\ v.reads = u.reads /\ v.writes = u.writes
  /\ v.collecting = u.collecting (-) SetToBag({d})
  /\ v.pending = IF d.store \/ d.path = "shared" THEN u.pending
                 ELSE [k \in DOMAIN u.pending \cup {Key(d)} |->
                         (IF k \in DOMAIN u.pending THEN u.pending[k] ELSE 0)
                         + (IF k = Key(d) THEN Len(d.blocks) ELSE 0)]

LEMMA DispatchFields ==
  ASSUME NEW u \in CoreRecords, NEW d \in DOMAIN u.collecting, NEW v,
         v = [u EXCEPT !.collecting = @ (-) SetToBag({d}), !.dispatch = d,
                       !.pending = IF d.store \/ d.path = "shared" THEN @
                                   ELSE [k \in DOMAIN @ \cup {Key(d)} |->
                                           (IF k \in DOMAIN @ THEN @[k] ELSE 0)
                                           + (IF k = Key(d) THEN Len(d.blocks) ELSE 0)]]
  PROVE  Dispatched(u, v, d) /\ d \in Instructions
<1>1. PICK P : P = u.pending
  OBVIOUS
<1>2. PICK C, Q : /\ C = u.collecting (-) SetToBag({d})
                  /\ Q = IF d.store \/ d.path = "shared" THEN P
                         ELSE [k \in DOMAIN P \cup {Key(d)} |->
                                 (IF k \in DOMAIN P THEN P[k] ELSE 0)
                                 + (IF k = Key(d) THEN Len(d.blocks) ELSE 0)]
  OBVIOUS
<1>3. u.collecting \in Collections /\ P \in [DOMAIN P -> Int] /\ DOMAIN P \subseteq Keys
  BY <1>1, CoreFields, PendingsAre
<1>4. d \in Instructions
  BY <1>3, CollectionsAre
<1>5. C \in Collections
  <2>1. Minus(C, u.collecting, d)
    BY <1>2 DEF Minus
  <2> QED BY <1>3, <2>1, CopiesRemove
<1>6. Q \in Pendings
  <2>1. Key(d) \in Keys /\ Len(d.blocks) \in Nat
    BY <1>4, InstructionAnswered
  <2>2. PICK n \in Nat : n = Len(d.blocks)
    BY <2>1
  <2>3. CASE d.store \/ d.path = "shared"
    BY <1>2, <1>3, <2>3, PendingsAre
  <2>4. CASE ~ (d.store \/ d.path = "shared")
    <3>1. Q = [k \in DOMAIN P \cup {Key(d)} |->
                 (IF k \in DOMAIN P THEN P[k] ELSE 0) + (IF k = Key(d) THEN n ELSE 0)]
      BY <1>2, <2>2, <2>4
    <3>2. \A k \in DOMAIN P \cup {Key(d)} :
            (IF k \in DOMAIN P THEN P[k] ELSE 0) + (IF k = Key(d) THEN n ELSE 0) \in Int
      BY <1>3
    <3>3. DOMAIN Q = DOMAIN P \cup {Key(d)} /\ Q \in [DOMAIN Q -> Int]
      <4> HIDE <1>2
      <4> QED BY <3>1, <3>2
    <3> QED BY <1>3, <2>1, <3>3, PendingsAre
  <2> QED BY <2>3, <2>4
<1>7. v = [u EXCEPT !.collecting = C, !.dispatch = d, !.pending = Q]
  BY <1>1, <1>2 DEF CoreRecords
<1> HIDE <1>2
<1>8. v \in CoreRecords /\ v.collecting = C /\ v.dispatch = d /\ v.pending = Q
  BY <1>4, <1>5, <1>6, <1>7 DEF CoreRecords
<1>9. /\ v.pipe = u.pipe /\ v.fifo = u.fifo
      /\ v.tex = u.tex /\ v.waiting = u.waiting /\ v.ready = u.ready
      /\ v.nextGlobal = u.nextGlobal /\ v.nextWb = u.nextWb
      /\ v.reserved = u.reserved /\ v.stores = u.stores /\ v.inPipe = u.inPipe
      /\ v.reads = u.reads /\ v.writes = u.writes
  BY <1>7 DEF CoreRecords
<1> QED BY <1>1, <1>2, <1>4, <1>8, <1>9 DEF Dispatched

LEMMA DispatchedKeeps ==
  ASSUME NEW u, Sound(u), Between(u), u.dispatch = None, NEW d \in DOMAIN u.collecting,
         NEW v, Dispatched(u, v, d)
  PROVE  Keeps(u, v) /\ Between(v)
<1>1. u \in CoreRecords /\ Kinds(u) /\ Places(u) /\ Held(u) /\ StoresCounted(u) /\ PipeCounted(u)
  BY DEF Sound
<1>2. /\ v \in CoreRecords /\ v.dispatch = d /\ v.pipe = u.pipe /\ v.fifo = u.fifo
      /\ v.tex = u.tex /\ v.waiting = u.waiting /\ v.ready = u.ready
      /\ v.nextGlobal = u.nextGlobal /\ v.nextWb = u.nextWb
      /\ v.reserved = u.reserved /\ v.stores = u.stores /\ v.inPipe = u.inPipe
      /\ v.reads = u.reads /\ v.writes = u.writes
  BY DEF Dispatched
<1>3. Legal(d) /\ d \in Instructions /\ d # None
      /\ (Answered(d) <=> d.path # "shared" /\ ~d.store)
  BY <1>1, InstructionAnswered DEF Kinds, Legal
<1>4. PICK B, C, P, Q, k : /\ B = u.collecting /\ C = v.collecting
                           /\ P = u.pending /\ Q = v.pending /\ k = Key(d)
  OBVIOUS
<1>5. B \in Collections /\ Minus(C, B, d) /\ d \in DOMAIN B /\ k \in Keys
  BY <1>1, <1>3, <1>4, CoreFields, InstructionAnswered DEF Dispatched, Minus
<1>6. PICK x \in Copies(B) : x[1] = d /\ Copies(C) = Copies(B) \ {x} /\ DOMAIN C \subseteq DOMAIN B
  BY <1>5, CopiesRemove
<1> HIDE <1>5
<1>7. IsFiniteSet(Copies(C))
  <2>1. IsFiniteSet(Copies(B))
    BY <1>1, <1>4 DEF Kinds
  <2>2. Copies(C) \in SUBSET Copies(B)
    BY <1>6
  <2> QED BY <2>1, <2>2, FS_Subset
<1>8. x \notin Copies(C) /\ \A y : y \in Copies(B) <=> y \in Copies(C) \/ y = x
  BY <1>6
<1>9. ASSUME NEW w, NEW j
      PROVE  /\ Cardinality(CopiesOf(C, w)) \in Nat /\ Cardinality(LoadsOf(C, j)) \in Nat
             /\ Cardinality(CopiesOf(B, w))
                  = Cardinality(CopiesOf(C, w)) + (IF d.warp = w THEN 1 ELSE 0)
             /\ Cardinality(LoadsOf(B, j))
                  = Cardinality(LoadsOf(C, j)) + (IF ~ d.store /\ Key(d) = j THEN 1 ELSE 0)
  <2>1. CountedMore(C, B, d, w, j)
    <3>1. x[1] = d
      BY <1>6
    <3> QED BY <1>7, <1>8, <3>1, CopiesMore
  <2> QED BY <2>1 DEF CountedMore
<1>10. Kinds(v)
  <2>1. IsFiniteSet(Copies(v.collecting))
    BY <1>4, <1>7
  <2>2. \A e \in DOMAIN v.collecting : Legal(e)
    BY <1>1, <1>4, <1>6 DEF Kinds
  <2> QED BY <1>1, <1>2, <1>3, <2>1, <2>2 DEF Kinds
<1>11. PICK out : out = Outstanding(u)
  OBVIOUS
<1>12. Outstanding(v) = out /\ Places(v)
  BY <1>1, <1>2, <1>11, OutstandingSame
<1>13. IsFiniteSet(out) /\ Matches(P, out, None)
  BY <1>1, <1>4, <1>11 DEF Sound, Places
<1>14. P \in [DOMAIN P -> Int]
  BY <1>1, <1>4, CoreFields, PendingsAre
<1>15. ~ Answered(d) => Q = P
  BY <1>3, <1>4 DEF Dispatched
<1>16. Answered(d) =>
         Q = [j \in DOMAIN P \cup {k} |->
                (IF j \in DOMAIN P THEN P[j] ELSE 0) + (IF j = k THEN Len(d.blocks) ELSE 0)]
  BY <1>3, <1>4 DEF Dispatched
<1>17. ASSUME Answered(d) PROVE k \notin DOMAIN P
  <2>1. HeldAt(u, k)
    BY <1>1, <1>5, HeldEach
  <2>2. PICK m : m = Cardinality(LoadsOf(C, k))
    OBVIOUS
  <2>3. m \in Nat /\ Cardinality(LoadsOf(u.collecting, k)) = m + 1
    BY <1>3, <1>4, <1>9, <1>17, <2>2
  <2>4. /\ HoldsShared(u.nextWb, k) \in {0, 1} /\ HoldsShared(u.dispatch, k) \in {0, 1}
        /\ HoldsShared(u.pipe[1], k) \in {0, 1} /\ HoldsShared(u.pipe[2], k) \in {0, 1}
        /\ HoldsShared(u.pipe[3], k) \in {0, 1}
        /\ Belongs(k, DOMAIN u.pending) \in {0, 1} /\ Belongs(k, u.reserved) \in {0, 1}
    BY <1>1, TermsNatural
  <2>5. Belongs(k, DOMAIN u.pending) = 0
    BY <2>1, <2>3, <2>4 DEF HeldAt
  <2> QED BY <1>4, <2>5 DEF Belongs
<1>18. Matches(Q, out, d) /\ (Answered(d) => Away(out, k) = {})
  <2>1. CASE ~ Answered(d)
    BY <1>13, <1>15, <2>1, MatchesOther
  <2>2. CASE Answered(d)
    <3>1. Q = [j \in DOMAIN P \cup {k} |->
                 (IF j \in DOMAIN P THEN P[j] ELSE 0) + (IF j = k THEN Len(d.blocks) ELSE 0)]
      BY <1>16, <2>2
    <3>2. k \notin DOMAIN P /\ k = Key(d)
      BY <1>4, <1>17, <2>2
    <3> HIDE <1>4
    <3> QED BY <1>3, <1>13, <1>14, <2>2, <3>1, <3>2, MatchesIssue
  <2> QED BY <2>1, <2>2
<1>19. Ahead(out, d) /\ (Answered(d) => \A a \in out : Key(a) # Key(d))
  BY <1>4, <1>18 DEF Ahead, Away
<1>20. Held(v)
  <2>1. ASSUME NEW j \in Keys PROVE HeldAt(v, j)
    <3>1. HeldAt(u, j)
      BY <1>1, HeldEach
    <3>2. PICK m : m = Cardinality(LoadsOf(C, j))
      OBVIOUS
    <3>3. PICK n \in {0, 1} : n = (IF ~ d.store /\ Key(d) = j THEN 1 ELSE 0)
      OBVIOUS
    <3>4. m \in Nat /\ Cardinality(LoadsOf(B, j)) = m + n
      BY <1>9, <3>2, <3>3
    <3>5. HoldsShared(d, j) + Belongs(j, DOMAIN Q) = n + Belongs(j, DOMAIN P)
      <4>1. CASE d.store
        <5>1. n = 0 /\ HoldsShared(d, j) = 0 /\ Q = P
          BY <1>3, <1>15, <3>3, <4>1 DEF HoldsShared
        <5>2. Belongs(j, DOMAIN P) \in {0, 1}
          BY DEF Belongs
        <5> QED BY <5>1, <5>2
      <4>2. CASE ~ d.store /\ d.path = "shared"
        <5>1. n = HoldsShared(d, j) /\ Q = P
          BY <1>3, <1>15, <3>3, <4>2 DEF HoldsShared
        <5> QED BY <5>1
      <4>3. CASE ~ d.store /\ d.path # "shared"
        <5>1. Answered(d) /\ HoldsShared(d, j) = 0
          BY <1>3, <4>3 DEF HoldsShared
        <5>2. DOMAIN Q = DOMAIN P \cup {k} /\ k \notin DOMAIN P
          BY <1>16, <1>17, <5>1
        <5>3. Belongs(j, DOMAIN Q) = n + Belongs(j, DOMAIN P)
          BY <1>4, <3>3, <4>3, <5>2 DEF Belongs
        <5>4. Belongs(j, DOMAIN Q) \in {0, 1}
          BY DEF Belongs
        <5> QED BY <5>1, <5>3, <5>4
      <4> QED BY <4>1, <4>2, <4>3
    <3>6. /\ Cardinality(LoadsOf(v.collecting, j)) = m
          /\ Cardinality(LoadsOf(u.collecting, j)) = m + n
          /\ HoldsShared(v.dispatch, j) + Belongs(j, DOMAIN v.pending)
               = n + Belongs(j, DOMAIN u.pending)
      BY <1>2, <1>4, <3>2, <3>4, <3>5
    <3>7. /\ HoldsShared(u.nextWb, j) \in {0, 1}
          /\ HoldsShared(u.pipe[1], j) \in {0, 1} /\ HoldsShared(u.pipe[2], j) \in {0, 1}
          /\ HoldsShared(u.pipe[3], j) \in {0, 1}
          /\ Belongs(j, DOMAIN u.pending) \in {0, 1} /\ Belongs(j, u.reserved) \in {0, 1}
      BY <1>1, TermsNatural
    <3>8. HoldsShared(v.dispatch, j) \in {0, 1} /\ Belongs(j, DOMAIN v.pending) \in {0, 1}
      BY DEF HoldsShared, Belongs
    <3>9. /\ HoldsShared(v.nextWb, j) = HoldsShared(u.nextWb, j)
          /\ HoldsShared(v.pipe[1], j) = HoldsShared(u.pipe[1], j)
          /\ HoldsShared(v.pipe[2], j) = HoldsShared(u.pipe[2], j)
          /\ HoldsShared(v.pipe[3], j) = HoldsShared(u.pipe[3], j)
          /\ HoldsShared(u.dispatch, j) = 0
          /\ Belongs(j, v.reserved) = Belongs(j, u.reserved)
      BY <1>2 DEF HoldsShared
    <3>10. n \in {0, 1}
      BY <3>3
    <3> HIDE <3>2, <3>3, <3>5
    <3> QED BY <3>1, <3>4, <3>6, <3>7, <3>8, <3>9, <3>10 DEF HeldAt
  <2> QED BY <2>1, HeldEach
<1>21. PipeCounted(v)
  <2>1. ASSUME NEW w \in Warps
        PROVE  v.inPipe[w] = Cardinality(CopiesOf(v.collecting, w)) + Named(v.dispatch, w)
                 + Named(v.pipe[1], w) + Named(v.pipe[2], w) + Named(v.pipe[3], w)
    <3>1. PICK m : m = Cardinality(CopiesOf(C, w))
      OBVIOUS
    <3>2. Named(d, w) = (IF d.warp = w THEN 1 ELSE 0)
      BY <1>3 DEF Named
    <3>3. m \in Nat /\ Cardinality(CopiesOf(B, w)) = m + Named(d, w)
      BY <1>9, <3>1, <3>2
    <3>4. u.inPipe[w] = (m + Named(d, w)) + Named(u.dispatch, w)
            + Named(u.pipe[1], w) + Named(u.pipe[2], w) + Named(u.pipe[3], w)
      BY <1>1, <1>4, <3>3 DEF PipeCounted
    <3>5. /\ Named(d, w) \in {0, 1} /\ Named(u.pipe[1], w) \in {0, 1}
          /\ Named(u.pipe[2], w) \in {0, 1} /\ Named(u.pipe[3], w) \in {0, 1}
          /\ Named(u.dispatch, w) = 0
      BY DEF Named
    <3>6. u.inPipe[w] = m + Named(d, w)
            + Named(u.pipe[1], w) + Named(u.pipe[2], w) + Named(u.pipe[3], w)
      BY <3>3, <3>4, <3>5
    <3> QED BY <1>2, <1>4, <3>1, <3>6
  <2> QED BY <2>1 DEF PipeCounted
<1>22. StoresCounted(v)
  BY <1>1, <1>2, StoresSame
<1>23. Sound(v)
  BY <1>2, <1>4, <1>10, <1>12, <1>18, <1>19, <1>20, <1>21, <1>22 DEF Sound
<1>24. Between(v)
  BY <1>2, <1>12, <1>19 DEF Between
<1>25. \A w \in Warps : Drained(u, w) => Drained(v, w)
  BY <1>2 DEF Drained
<1> QED BY <1>23, <1>24, <1>25 DEF Keeps

-----------------------------------------------------------------------------
(* The cores of the cluster.                                               *)

LEMMA IdleFields ==
  /\ IdleCore \in CoreRecords
  /\ DOMAIN IdleCore.collecting = {} /\ IdleCore.dispatch = None
  /\ IdleCore.pipe[1] = None /\ IdleCore.pipe[2] = None /\ IdleCore.pipe[3] = None
  /\ IdleCore.fifo = <<>> /\ IdleCore.tex = <<>>
  /\ IdleCore.waiting = {} /\ IdleCore.ready = {}
  /\ IdleCore.nextGlobal = None /\ IdleCore.nextWb = None
  /\ DOMAIN IdleCore.pending = {} /\ IdleCore.reserved = {} /\ IdleCore.reads = {}
  /\ \A w \in Warps : /\ IdleCore.stores[w] = 0 /\ IdleCore.inPipe[w] = 0
                      /\ IdleCore.writes[w] = 0
<1>1. PICK B, P, pipe, N : /\ B = EmptyBag /\ P = <<>> /\ pipe = <<None, None, None>>
                           /\ N = [w \in Warps |-> 0]
  OBVIOUS
<1>2. B \in Collections /\ DOMAIN B = {}
  <2>1. B = [e \in {} |-> 1]
    BY <1>1 DEF EmptyBag, SetToBag
  <2>2. DOMAIN B = {} /\ B \in [DOMAIN B -> Nat \ {0}]
    BY <2>1
  <2> QED BY <2>2, CollectionsAre
<1>3. P \in Pendings /\ DOMAIN P = {} /\ P = <<>>
  <2>1. DOMAIN P = {} /\ P \in [DOMAIN P -> Int]
    BY <1>1
  <2> QED BY <1>1, <2>1, PendingsAre
<1>4. /\ pipe \in [1 .. 3 -> Instructions \cup {None}]
      /\ pipe[1] = None /\ pipe[2] = None /\ pipe[3] = None
  BY <1>1
<1>5. N \in [Warps -> Nat] /\ N \in [Warps -> Int] /\ \A w \in Warps : N[w] = 0
  BY <1>1
<1>6. PICK F, T : F = <<>> /\ T = <<>> /\ F \in Seq(Accesses \cup Acks) /\ T \in Seq(TexEntries)
  <2>1. \A S : <<>> \in Seq(S)
    OBVIOUS
  <2>2. <<>> \in Seq(Accesses \cup Acks) /\ <<>> \in Seq(TexEntries)
    BY <2>1
  <2> QED BY <2>2, Zenon
<1>7. IdleCore = [collecting |-> B, dispatch |-> None, pipe |-> pipe, fifo |-> F, tex |-> T,
                  waiting |-> {}, ready |-> {}, lost |-> {}, nextGlobal |-> None,
                  nextWb |-> None, arb |-> 0, pending |-> P, reserved |-> {}, stores |-> N,
                  inPipe |-> N, reads |-> {}, writes |-> N]
  BY <1>1, <1>6 DEF IdleCore
<1> HIDE <1>1
<1>8. PICK v : v = IdleCore
  OBVIOUS
<1>9. v \in CoreRecords
  BY <1>2, <1>3, <1>4, <1>5, <1>6, <1>7, <1>8 DEF CoreRecords
<1>10. /\ v.collecting = B /\ v.dispatch = None /\ v.pipe = pipe /\ v.fifo = F /\ v.tex = T
       /\ v.waiting = {} /\ v.ready = {} /\ v.nextGlobal = None /\ v.nextWb = None
       /\ v.pending = P /\ v.reserved = {} /\ v.stores = N /\ v.inPipe = N /\ v.reads = {}
       /\ v.writes = N
  BY <1>7, <1>8
<1> QED BY <1>2, <1>3, <1>4, <1>5, <1>6, <1>8, <1>9, <1>10

LEMMA IdleSound ==
  ASSUME NEW u, u = IdleCore
  PROVE  Sound(u) /\ Between(u) /\ \A w \in Warps : Drained(u, w)
<1>1. /\ u \in CoreRecords /\ DOMAIN u.collecting = {} /\ u.dispatch = None
      /\ u.pipe[1] = None /\ u.pipe[2] = None /\ u.pipe[3] = None
      /\ u.fifo = <<>> /\ u.tex = <<>> /\ u.waiting = {} /\ u.ready = {}
      /\ u.nextGlobal = None /\ u.nextWb = None
      /\ DOMAIN u.pending = {} /\ u.reserved = {} /\ u.reads = {}
      /\ \A w \in Warps : u.stores[w] = 0 /\ u.inPipe[w] = 0 /\ u.writes[w] = 0
  BY IdleFields
<1>2. Copies(u.collecting) = {}
  BY <1>1, CopiesIs
<1>3. DOMAIN u.fifo = {} /\ DOMAIN u.tex = {}
  BY <1>1
<1>4. Kinds(u)
  <2>1. IsFiniteSet(Copies(u.collecting))
    BY <1>2, FS_EmptySet
  <2>2. \A i \in 1 .. 3 : u.pipe[i] = None
    <3>1. \A i \in 1 .. 3 : i = 1 \/ i = 2 \/ i = 3
      OBVIOUS
    <3> QED BY <1>1, <3>1
  <2> QED BY <1>1, <1>3, <2>1, <2>2 DEF Kinds
<1>5. Requests(u) = {}
  BY <1>1, <1>3, RequestsAre
<1>6. Outstanding(u) = {}
  BY <1>1, <1>3, <1>4, <1>5, OutstandingIs, NoneIsNone
<1>7. Places(u)
  <2>1. IsFiniteSet(Outstanding(u))
    BY <1>6, FS_EmptySet
  <2> QED BY <1>1, <1>3, <1>5, <2>1 DEF Places
<1>8. Matches(u.pending, Outstanding(u), u.dispatch) /\ Ahead(Outstanding(u), u.dispatch)
      /\ Between(u)
  BY <1>1, <1>6 DEF Matches, Ahead, Away, Loads, Between
<1>9. Held(u)
  <2>1. ASSUME NEW k \in Keys PROVE HeldAt(u, k)
    <3>1. LoadsOf(u.collecting, k) = {}
      BY <1>2 DEF LoadsOf
    <3>2. Cardinality(LoadsOf(u.collecting, k)) = 0
      BY <3>1, FS_EmptySet
    <3> QED BY <1>1, <3>2 DEF HeldAt, HoldsShared, Belongs
  <2> QED BY <2>1, HeldEach
<1>10. StoresCounted(u)
  <2>1. ASSUME NEW w \in Warps PROVE u.stores[w] = u.writes[w] + Cardinality(AcksOf(u.fifo, w))
    <3>1. AcksOf(u.fifo, w) = {}
      BY <1>3 DEF AcksOf
    <3>2. Cardinality(AcksOf(u.fifo, w)) = 0
      BY <3>1, FS_EmptySet
    <3> QED BY <1>1, <3>2
  <2> QED BY <2>1 DEF StoresCounted
<1>11. PipeCounted(u)
  <2>1. ASSUME NEW w \in Warps
        PROVE  u.inPipe[w] = Cardinality(CopiesOf(u.collecting, w)) + Named(u.dispatch, w)
                 + Named(u.pipe[1], w) + Named(u.pipe[2], w) + Named(u.pipe[3], w)
    <3>1. CopiesOf(u.collecting, w) = {}
      BY <1>2 DEF CopiesOf
    <3>2. Cardinality(CopiesOf(u.collecting, w)) = 0
      BY <3>1, FS_EmptySet
    <3> QED BY <1>1, <3>2 DEF Named
  <2> QED BY <2>1 DEF PipeCounted
<1>12. \A w \in Warps : Drained(u, w)
  BY <1>1 DEF Drained
<1>13. Sound(u)
  BY <1>1, <1>4, <1>7, <1>8, <1>9, <1>10, <1>11 DEF Sound
<1> QED BY <1>8, <1>12, <1>13

LEMMA InitIInv == Init => IInv
<1> SUFFICES ASSUME Init PROVE IInv
  OBVIOUS
<1>1. \A c \in Cores : core[c] = IdleCore
  BY DEF Init
<1>2. \A c \in Cores : /\ Sound(core[c]) /\ Between(core[c])
                       /\ \A w \in Warps : Drained(core[c], w)
  BY <1>1, IdleSound
<1>3. core \in [Cores -> CoreRecords]
  <2>1. IdleCore \in CoreRecords
    BY IdleFields
  <2> QED BY <2>1 DEF Init
<1>4. phase \in [Cores -> [Warps -> {"idle", "running", "done"}]]
  BY DEF Init
<1>5. compression \in Compressions /\ mode \in BOOLEAN /\ issued \in Nat
  BY DEF Init
<1> QED BY <1>2, <1>3, <1>4, <1>5 DEF IInv

\* A step that one core takes, whatever warps it changes the phase of.
LEMMA CoreKeeps ==
  ASSUME IInv, NEW c \in Cores, NEW v, Keeps(core[c], v), Between(v),
         core' = [core EXCEPT ![c] = v], UNCHANGED <<compression, mode, phase, issued>>
  PROVE  IInv'
<1>1. v \in CoreRecords
  BY DEF Keeps, Sound
<1>2. /\ core \in [Cores -> CoreRecords] /\ core' \in [Cores -> CoreRecords]
      /\ core'[c] = v /\ \A d \in Cores : d # c => core'[d] = core[d]
  BY <1>1 DEF IInv
<1>3. \A d \in Cores : Sound(core'[d]) /\ Between(core'[d])
  BY <1>2 DEF IInv, Keeps
<1>4. \A d \in Cores : \A w \in Warps : phase'[d][w] = "idle" => Drained(core'[d], w)
  BY <1>2 DEF IInv, Keeps
<1>5. /\ compression' \in Compressions /\ mode' \in BOOLEAN /\ issued' \in Nat
      /\ phase' \in [Cores -> [Warps -> {"idle", "running", "done"}]]
  BY DEF IInv
<1> QED BY <1>2, <1>3, <1>4, <1>5 DEF IInv

\* A step that changes the phase of one warp.
LEMMA PhaseKeeps ==
  ASSUME IInv, NEW c \in Cores, NEW w \in Warps, NEW p \in {"idle", "running", "done"},
         phase' = [phase EXCEPT ![c][w] = p], mode' \in BOOLEAN,
         UNCHANGED <<compression, core, issued>>, p = "idle" => Drained(core[c], w)
  PROVE  IInv'
<1>1. phase \in [Cores -> [Warps -> {"idle", "running", "done"}]]
  BY DEF IInv
<1>2. phase' \in [Cores -> [Warps -> {"idle", "running", "done"}]]
  BY <1>1
<1>3. \A d \in Cores : \A v \in Warps : phase'[d][v] = phase[d][v] \/ (d = c /\ v = w /\ phase'[d][v] = p)
  BY <1>1
<1>4. \A d \in Cores : \A v \in Warps : phase'[d][v] = "idle" => Drained(core[d], v)
  BY <1>3 DEF IInv
<1>5. core' = core /\ compression' \in Compressions /\ issued' \in Nat
  BY DEF IInv
<1>6. core' \in [Cores -> CoreRecords] /\ \A d \in Cores : Sound(core'[d]) /\ Between(core'[d])
  BY <1>5 DEF IInv
<1>7. \A d \in Cores : \A v \in Warps : phase'[d][v] = "idle" => Drained(core'[d], v)
  BY <1>4, <1>5
<1> QED BY <1>2, <1>5, <1>6, <1>7 DEF IInv

-----------------------------------------------------------------------------
(* The actions.                                                            *)

LEMMA IssueIs ==
  ASSUME core \in [Cores -> CoreRecords], NEW c \in Cores, NEW w \in Warps, Issue(c, w)
  PROVE  \E d, v :
           /\ d \in Instructions /\ Legal(d) /\ d.warp = w /\ Key(d) \notin core[c].reserved
           /\ Issued(core[c], v, d) /\ core' = [core EXCEPT ![c] = v]
           /\ phase[c][w] = "running" /\ issued' = issued + 1
           /\ UNCHANGED <<compression, mode, phase, unit>>
<1>1. PICK p \in Program, r \in Regs :
        /\ phase[c][w] = "running" /\ issued < MaxIssued /\ <<w, r>> \notin core[c].reserved
        /\ issued' = issued + 1
        /\ core' = [core EXCEPT
             ![c].collecting = @ (+) SetToBag(
                {[warp |-> w, reg |-> r, path |-> p.path, store |-> p.store,
                  blocks |-> p.blocks, fired |-> FALSE]}),
             ![c].reserved = IF p.store THEN @ ELSE @ \cup {<<w, r>>},
             ![c].inPipe[w] = @ + 1]
        /\ UNCHANGED <<compression, mode, phase, unit>>
  BY Zenon DEF Issue
<1>2. PICK d : d = [warp |-> w, reg |-> r, path |-> p.path, store |-> p.store,
                    blocks |-> p.blocks, fired |-> FALSE]
  OBVIOUS
<1>3. /\ p \in [path : Paths, store : BOOLEAN, blocks : Seq(Blocks)]
      /\ p.store => p.path \notin {"const", "tex"}
      /\ p.path = "shared" => p.blocks = <<>>
      /\ IsInjective(p.blocks)
  BY LoadStoreAssumption
<1>4. /\ d \in Instructions /\ d.warp = w /\ d.reg = r /\ d.path = p.path
      /\ d.blocks = p.blocks
  BY <1>2, <1>3 DEF Instructions
<1>5. d.store = p.store
  BY <1>2, Zenon
<1>6. Key(d) = <<w, r>>
  BY <1>4 DEF Key
<1>7. Legal(d)
  BY <1>3, <1>4, <1>5 DEF Legal
<1>8. PICK R : R = IF d.store THEN core[c].reserved ELSE core[c].reserved \cup {Key(d)}
  OBVIOUS
<1>9. PICK v : v = [core[c] EXCEPT !.collecting = @ (+) SetToBag({d}), !.reserved = R,
                                   !.inPipe[d.warp] = @ + 1]
  OBVIOUS
<1>10. core[c] \in CoreRecords
  OBVIOUS
<1>11. Issued(core[c], v, d)
  <2> HIDE <1>2
  <2>1. IssueOf(core[c], v, d, R)
    BY <1>8, <1>9 DEF IssueOf
  <2> HIDE <1>8, <1>9
  <2> QED BY <1>4, <1>10, <2>1, IssueFields
<1>12. core' = [core EXCEPT ![c] = v]
  <2>1. core' = [core EXCEPT ![c].collecting = @ (+) SetToBag({d}),
                             ![c].reserved = IF p.store THEN @ ELSE @ \cup {<<w, r>>},
                             ![c].inPipe[w] = @ + 1]
    BY <1>1, <1>2, Zenon
  <2>2. R = IF p.store THEN core[c].reserved ELSE core[c].reserved \cup {<<w, r>>}
    BY <1>5, <1>6, <1>8, Zenon
  <2>3. PICK C : C = core[c].collecting (+) SetToBag({d})
    OBVIOUS
  <2>4. core' = [core EXCEPT ![c] = [core[c] EXCEPT !.collecting = C, !.reserved = R,
                                                    !.inPipe[w] = @ + 1]]
    <3> HIDE <1>1, <1>2, <1>8, <1>9
    <3> QED BY <1>10, <2>1, <2>2, <2>3 DEF CoreRecords
  <2>5. v = [core[c] EXCEPT !.collecting = C, !.reserved = R, !.inPipe[w] = @ + 1]
    <3> HIDE <1>2, <1>8
    <3> QED BY <1>4, <1>9, <1>10, <2>3 DEF CoreRecords
  <2> QED BY <2>4, <2>5
<1>13. /\ phase[c][w] = "running" /\ issued' = issued + 1 /\ UNCHANGED <<compression, mode, phase, unit>>
      /\ Key(d) \notin core[c].reserved
  BY <1>1, <1>6, Zenon
<1>14. d.warp = w /\ d \in Instructions
  BY <1>4
<1> HIDE <1>1, <1>2, <1>4, <1>6, <1>8, <1>9
<1> QED BY <1>7, <1>11, <1>12, <1>13, <1>14, Zenon

LEMMA IssueKeeps ==
  ASSUME IInv, NEW c \in Cores, NEW w \in Warps, Issue(c, w)
  PROVE  IInv' /\ core'[c].dispatch = core[c].dispatch
<1>1. core \in [Cores -> CoreRecords] /\ Sound(core[c]) /\ Between(core[c])
  BY DEF IInv
<1>2. PICK d, v :
           /\ d \in Instructions /\ Legal(d) /\ d.warp = w /\ Key(d) \notin core[c].reserved
           /\ Issued(core[c], v, d) /\ core' = [core EXCEPT ![c] = v]
           /\ phase[c][w] = "running" /\ issued' = issued + 1
           /\ UNCHANGED <<compression, mode, phase, unit>>
  BY <1>1, IssueIs
<1>3. /\ Sound(v) /\ Between(v)
      /\ \A x \in Warps : x # d.warp /\ Drained(core[c], x) => Drained(v, x)
  BY <1>1, <1>2, IssuedKeeps
<1>4. v \in CoreRecords
  BY <1>3 DEF Sound
<1>5. /\ core' \in [Cores -> CoreRecords]
      /\ core'[c] = v /\ \A e \in Cores : e # c => core'[e] = core[e]
  BY <1>1, <1>2, <1>4
<1>6. \A e \in Cores : Sound(core'[e]) /\ Between(core'[e])
  BY <1>3, <1>5 DEF IInv
<1>7. \A e \in Cores : \A x \in Warps : phase'[e][x] = "idle" => Drained(core'[e], x)
  BY <1>2, <1>3, <1>5 DEF IInv
<1>8. /\ compression' \in Compressions /\ mode' \in BOOLEAN /\ issued' \in Nat
      /\ phase' \in [Cores -> [Warps -> {"idle", "running", "done"}]]
  BY <1>2 DEF IInv
<1>9. core'[c].dispatch = core[c].dispatch
  BY <1>2, <1>5 DEF Issued
<1> QED BY <1>5, <1>6, <1>7, <1>8, <1>9 DEF IInv

LEMMA DispatchKeeps ==
  ASSUME IInv, NEW c \in Cores, IssueToUnit(c)
  PROVE  IInv' /\ core[c].dispatch = None
<1>1. core \in [Cores -> CoreRecords] /\ Sound(core[c]) /\ Between(core[c])
  BY DEF IInv
<1>2. PICK d \in BagToSet(core[c].collecting) :
         /\ core[c].dispatch = None
         /\ core' = [core EXCEPT
              ![c].collecting = @ (-) SetToBag({d}),
              ![c].dispatch = d,
              ![c].pending = IF d.store \/ d.path = "shared" THEN @
                             ELSE [k \in DOMAIN @ \cup {Key(d)} |->
                                     (IF k \in DOMAIN @ THEN @[k] ELSE 0)
                                     + (IF k = Key(d) THEN Len(d.blocks) ELSE 0)]]
         /\ UNCHANGED <<compression, mode, phase, unit, issued>>
  BY Zenon DEF IssueToUnit
<1>3. PICK v : v = [core[c] EXCEPT !.collecting = @ (-) SetToBag({d}), !.dispatch = d,
                       !.pending = IF d.store \/ d.path = "shared" THEN @
                                   ELSE [k \in DOMAIN @ \cup {Key(d)} |->
                                           (IF k \in DOMAIN @ THEN @[k] ELSE 0)
                                           + (IF k = Key(d) THEN Len(d.blocks) ELSE 0)]]
  OBVIOUS
<1>4. d \in DOMAIN core[c].collecting /\ core[c] \in CoreRecords
  BY <1>1, <1>2 DEF BagToSet
<1>5. Dispatched(core[c], v, d)
  BY <1>3, <1>4, DispatchFields
<1>6. Keeps(core[c], v) /\ Between(v)
  BY <1>1, <1>2, <1>4, <1>5, DispatchedKeeps
<1>7. core' = [core EXCEPT ![c] = v]
  <2>1. PICK P, C, Q : /\ P = core[c].pending /\ C = core[c].collecting (-) SetToBag({d})
                       /\ Q = IF d.store \/ d.path = "shared" THEN P
                              ELSE [k \in DOMAIN P \cup {Key(d)} |->
                                      (IF k \in DOMAIN P THEN P[k] ELSE 0)
                                      + (IF k = Key(d) THEN Len(d.blocks) ELSE 0)]
    OBVIOUS
  <2>2. v = [core[c] EXCEPT !.collecting = C, !.dispatch = d, !.pending = Q]
    BY <1>3, <1>4, <2>1 DEF CoreRecords
  <2>3. core' = [core EXCEPT ![c] = [core[c] EXCEPT !.collecting = C, !.dispatch = d,
                                                    !.pending = Q]]
    BY <1>1, <1>2, <1>4, <2>1 DEF CoreRecords
  <2> QED BY <2>2, <2>3
<1>8. UNCHANGED <<compression, mode, phase, issued>>
  BY <1>2
<1> QED BY <1>2, <1>6, <1>7, <1>8, CoreKeeps

LEMMA ReplyKeeps ==
  ASSUME IInv, NEW c \in Cores, Reply(c)
  PROVE  IInv' /\ core'[c].dispatch = core[c].dispatch
<1>1. core \in [Cores -> CoreRecords] /\ Sound(core[c]) /\ Between(core[c])
  BY DEF IInv
<1>2. UNCHANGED <<compression, mode, phase, issued>>
  BY DEF Reply
<1>3. core[c] \in CoreRecords
  BY <1>1
<1>4. \/ \E a \in core[c].reads :
          core' = [core EXCEPT ![c].reads = @ \ {a}, ![c].fifo = Append(@, a)]
      \/ \E w \in Warps :
          /\ core[c].writes[w] > 0
          /\ core' = [core EXCEPT ![c].writes[w] = @ - 1,
                                  ![c].fifo = Append(@, [path |-> "ack", warp |-> w])]
  BY Zenon DEF Reply
<1>5. \E v, m : Replied(core[c], v, m) /\ core' = [core EXCEPT ![c] = v]
  <2>1. ASSUME NEW a \in core[c].reads,
               core' = [core EXCEPT ![c].reads = @ \ {a}, ![c].fifo = Append(@, a)]
        PROVE  \E v, m : Replied(core[c], v, m) /\ core' = [core EXCEPT ![c] = v]
    <3>1. PICK v : v = [core[c] EXCEPT !.reads = @ \ {a}, !.fifo = Append(@, a)]
      OBVIOUS
    <3>2. Replied(core[c], v, a)
      BY <1>3, <3>1, ReadReplied
    <3>3. core' = [core EXCEPT ![c] = v]
      BY <1>1, <1>3, <2>1, <3>1 DEF CoreRecords
    <3> QED BY <3>2, <3>3
  <2>2. ASSUME NEW w \in Warps, core[c].writes[w] > 0,
               core' = [core EXCEPT ![c].writes[w] = @ - 1,
                                    ![c].fifo = Append(@, [path |-> "ack", warp |-> w])]
        PROVE  \E v, m : Replied(core[c], v, m) /\ core' = [core EXCEPT ![c] = v]
    <3>1. PICK v : v = [core[c] EXCEPT !.writes[w] = @ - 1,
                                       !.fifo = Append(@, [path |-> "ack", warp |-> w])]
      OBVIOUS
    <3>2. Replied(core[c], v, [path |-> "ack", warp |-> w])
      BY <1>3, <2>2, <3>1, WriteReplied
    <3>3. core' = [core EXCEPT ![c] = v]
      <4>1. PICK m : m = [path |-> "ack", warp |-> w]
        OBVIOUS
      <4>2. v = [core[c] EXCEPT !.writes[w] = @ - 1, !.fifo = Append(@, m)]
        BY <3>1, <4>1
      <4>3. core' = [core EXCEPT ![c].writes[w] = @ - 1, ![c].fifo = Append(@, m)]
        BY <2>2, <4>1
      <4> HIDE <4>1
      <4> QED BY <1>1, <1>3, <4>2, <4>3 DEF CoreRecords
    <3> QED BY <3>2, <3>3
  <2> QED BY <1>4, <2>1, <2>2
<1>6. PICK v, m : Replied(core[c], v, m) /\ core' = [core EXCEPT ![c] = v]
  BY <1>5
<1>7. Keeps(core[c], v) /\ Between(v) /\ v.dispatch = core[c].dispatch
  BY <1>1, <1>6, RepliedKeeps
<1>8. core'[c] = v
  BY <1>1, <1>6
<1>9. IInv'
  BY <1>2, <1>6, <1>7, CoreKeeps
<1> QED BY <1>7, <1>8, <1>9

LEMMA CycleIs ==
  ASSUME NEW c, LdstCycle(c)
  PROVE  \E bank, fill, port, written :
           /\ written = IF bank /\ core[c].nextWb # None THEN Written(core[c]) ELSE core[c]
           /\ \E handed, answered :
                /\ handed \in NextWriteback(written) /\ answered = Respond(MovePipe(handed), fill)
                /\ \E x \in Accessed(c, answered, unit, port) :
                     /\ core' = [core EXCEPT ![c] = Leave(x[1], port)]
                     /\ unit' = x[2]
                     /\ UNCHANGED <<compression, mode, phase, issued>>
<1>1. PICK bank, fill, port : Cycle(c, bank, fill, port)
  BY Zenon DEF LdstCycle
<1>2. PICK written : written = IF bank /\ core[c].nextWb # None THEN Written(core[c]) ELSE core[c]
  OBVIOUS
<1>3. \E handed \in NextWriteback(written) :
        \E moved \in {MovePipe(handed)} :
          \E answered \in {Respond(moved, fill)} :
            \E x \in Accessed(c, answered, unit, port) :
              /\ core' = [core EXCEPT ![c] = Leave(x[1], port)]
              /\ unit' = x[2]
              /\ UNCHANGED <<compression, mode, phase, issued>>
  BY <1>1, <1>2, Zenon DEF Cycle
<1>4. PICK handed \in NextWriteback(written) :
        \E moved \in {MovePipe(handed)} :
          \E answered \in {Respond(moved, fill)} :
            \E x \in Accessed(c, answered, unit, port) :
              /\ core' = [core EXCEPT ![c] = Leave(x[1], port)]
              /\ unit' = x[2]
              /\ UNCHANGED <<compression, mode, phase, issued>>
  BY <1>3, Zenon
<1>5. PICK answered : answered = Respond(MovePipe(handed), fill)
  OBVIOUS
<1>6. \E x \in Accessed(c, answered, unit, port) :
              /\ core' = [core EXCEPT ![c] = Leave(x[1], port)]
              /\ unit' = x[2]
              /\ UNCHANGED <<compression, mode, phase, issued>>
  BY <1>4, <1>5, Zenon
<1> QED BY <1>2, <1>5, <1>6, Zenon

LEMMA LdstKeeps ==
  ASSUME IInv, NEW c \in Cores, LdstCycle(c)
  PROVE  IInv'
<1>1. PICK bank, fill, port, written :
           /\ written = IF bank /\ core[c].nextWb # None THEN Written(core[c]) ELSE core[c]
           /\ \E handed, answered :
                /\ handed \in NextWriteback(written) /\ answered = Respond(MovePipe(handed), fill)
                /\ \E x \in Accessed(c, answered, unit, port) :
                     /\ core' = [core EXCEPT ![c] = Leave(x[1], port)]
                     /\ unit' = x[2]
                     /\ UNCHANGED <<compression, mode, phase, issued>>
  BY CycleIs, Zenon
<1>2. PICK handed, answered :
                /\ handed \in NextWriteback(written) /\ answered = Respond(MovePipe(handed), fill)
                /\ \E x \in Accessed(c, answered, unit, port) :
                     /\ core' = [core EXCEPT ![c] = Leave(x[1], port)]
                     /\ unit' = x[2]
                     /\ UNCHANGED <<compression, mode, phase, issued>>
  BY <1>1, Zenon
<1>3. PICK x \in Accessed(c, answered, unit, port) :
                     /\ core' = [core EXCEPT ![c] = Leave(x[1], port)]
                     /\ unit' = x[2]
                     /\ UNCHANGED <<compression, mode, phase, issued>>
  BY <1>2, Zenon
<1>4. Sound(core[c]) /\ Between(core[c])
  BY DEF IInv
<1>5. written = IF bank /\ core[c].nextWb # None THEN Written(core[c]) ELSE core[c]
  BY <1>1
<1>6. handed \in NextWriteback(written) /\ answered = Respond(MovePipe(handed), fill)
  BY <1>2
<1>7. Keeps(core[c], Leave(x[1], port)) /\ Between(Leave(x[1], port))
  BY <1>4, <1>5, <1>6, CycleKeeps
<1>8. core' = [core EXCEPT ![c] = Leave(x[1], port)] /\ UNCHANGED <<compression, mode, phase, issued>>
  BY <1>3, Zenon
<1> QED BY <1>7, <1>8, CoreKeeps

LEMMA RetireKeeps ==
  ASSUME IInv, NEW c \in Cores, NEW w \in Warps, Retire(c, w)
  PROVE  IInv'
<1>1. /\ phase' = [phase EXCEPT ![c][w] = "idle"]
      /\ UNCHANGED <<compression, mode, core, unit, issued>>
  BY DEF Retire
<1>2. Drained(core[c], w)
  BY DEF Retire, HardwareDone, PendingWrites, Drained
<1>3. mode' \in BOOLEAN
  BY <1>1 DEF IInv
<1> QED BY <1>1, <1>2, <1>3, PhaseKeeps

LEMMA LaunchIs ==
  ASSUME IInv, NEW c \in Cores, NEW w \in Warps, Launch(c, w)
  PROVE  /\ phase[c][w] = "idle" /\ phase' = [phase EXCEPT ![c][w] = "running"]
         /\ mode' \in BOOLEAN
         /\ mode' = mode \/ \A v \in Warps : phase[c][v] = "idle"
         /\ UNCHANGED <<compression, core, unit, issued>>
<1>1. mode \in BOOLEAN
  BY DEF IInv
<1>2. mode' \in IF compression = "adaptive" /\ \A v \in Warps : phase[c][v] = "idle"
                  THEN BOOLEAN ELSE {mode}
  BY Zenon DEF Launch
<1>3. mode' \in BOOLEAN /\ (mode' = mode \/ \A v \in Warps : phase[c][v] = "idle")
  BY <1>1, <1>2
<1> QED BY <1>3, Zenon DEF Launch

LEMMA NextIInv == IInv /\ [Next]_vars => IInv'
<1> SUFFICES ASSUME IInv, [Next]_vars
             PROVE  IInv'
  OBVIOUS
<1>1. CASE SwitchOn
  <2>1. mode' = TRUE /\ UNCHANGED <<compression, phase, core, issued>>
    BY <1>1 DEF SwitchOn
  <2> QED BY <2>1 DEF IInv
<1>2. ASSUME NEW c \in Cores, NEW w \in Warps, Launch(c, w)
      PROVE  IInv'
  <2>1. /\ phase' = [phase EXCEPT ![c][w] = "running"] /\ mode' \in BOOLEAN
        /\ UNCHANGED <<compression, core, unit, issued>>
    BY <1>2, LaunchIs
  <2> QED BY <2>1, PhaseKeeps
<1>3. ASSUME NEW c \in Cores, NEW w \in Warps, Issue(c, w)
      PROVE  IInv'
  BY <1>3, IssueKeeps
<1>4. ASSUME NEW c \in Cores, NEW w \in Warps, Exit(c, w)
      PROVE  IInv'
  <2>1. /\ phase' = [phase EXCEPT ![c][w] = "done"]
        /\ UNCHANGED <<compression, mode, core, unit, issued>>
    BY <1>4 DEF Exit
  <2>2. mode' \in BOOLEAN
    BY <2>1 DEF IInv
  <2> QED BY <2>1, <2>2, PhaseKeeps
<1>5. ASSUME NEW c \in Cores, NEW w \in Warps, Retire(c, w)
      PROVE  IInv'
  BY <1>5, RetireKeeps
<1>6. ASSUME NEW c \in Cores, IssueToUnit(c)
      PROVE  IInv'
  BY <1>6, DispatchKeeps
<1>7. ASSUME NEW c \in Cores, LdstCycle(c)
      PROVE  IInv'
  BY <1>7, LdstKeeps
<1>8. ASSUME NEW c \in Cores, Reply(c)
      PROVE  IInv'
  BY <1>8, ReplyKeeps
<1>9. CASE UNCHANGED vars
  <2>1. UNCHANGED <<compression, mode, phase, core, issued>>
    BY <1>9 DEF vars
  <2> QED BY <2>1 DEF IInv
<1> QED BY <1>1, <1>2, <1>3, <1>4, <1>5, <1>6, <1>7, <1>8, <1>9, Zenon DEF Next

\* However stages of ldst_unit::cycle(), issues and answers interleave, every
\* access of a load is in one place, its counters and its reservation follow
\* it, and a warp that has been given up has none.
THEOREM Inductive == Spec => []IInv
<1>1. Init => IInv
  BY InitIInv
<1>2. IInv /\ [Next]_vars => IInv'
  BY NextIInv
<1> QED BY <1>1, <1>2, PTL DEF Spec

-----------------------------------------------------------------------------
(* What the invariant says of registers, counters and warps.               *)

LEMMA CollectedIs ==
  ASSUME NEW u, Sound(u), NEW d \in BagToSet(u.collecting)
  PROVE  d \in Instructions /\ <<d, 1>> \in Copies(u.collecting)
<1>1. u.collecting \in [DOMAIN u.collecting -> Nat \ {0}] /\ DOMAIN u.collecting \subseteq Instructions
  <2>1. u.collecting \in Collections
    BY CoreFields DEF Sound
  <2> QED BY <2>1, CollectionsAre
<1>2. d \in DOMAIN u.collecting
  BY DEF BagToSet
<1>3. 1 \in 1 .. u.collecting[d]
  BY <1>1, <1>2
<1> QED BY <1>1, <1>2, <1>3, CopiesIs

LEMMA InPipeIs ==
  ASSUME NEW u, NEW d
  PROVE  d \in InPipe(u) <=>
           \/ d \in BagToSet(u.collecting)
           \/ /\ d # None
              /\ \/ d = u.dispatch \/ d = u.pipe[1] \/ d = u.pipe[2] \/ d = u.pipe[3]
BY DEF InPipe, InUnit

LEMMA ReservedIs ==
  ASSUME NEW u, Sound(u), NEW k \in Keys
  PROVE  k \in u.reserved <=>
           \/ \E d \in InPipe(u) : ~d.store /\ Key(d) = k
           \/ \E m \in {u.nextWb} \ {None} : Key(m) = k
           \/ k \in DOMAIN u.pending
<1>1. u \in CoreRecords /\ Kinds(u)
  BY DEF Sound
<1>2. HeldAt(u, k)
  BY HeldEach DEF Sound
<1>3. IsFiniteSet(LoadsOf(u.collecting, k))
  BY <1>1, LoadsFinite
<1>4. k \in u.reserved <=>
        \/ HoldsShared(u.nextWb, k) = 1 \/ HoldsShared(u.dispatch, k) = 1
        \/ HoldsShared(u.pipe[1], k) = 1 \/ HoldsShared(u.pipe[2], k) = 1
        \/ HoldsShared(u.pipe[3], k) = 1
        \/ k \in DOMAIN u.pending
        \/ LoadsOf(u.collecting, k) # {}
  <2>1. Cardinality(LoadsOf(u.collecting, k)) = 0 <=> LoadsOf(u.collecting, k) = {}
    BY <1>3, FS_EmptySet
  <2>2. k \in u.reserved <=> Belongs(k, u.reserved) = 1
    BY DEF Belongs
  <2>3. k \in DOMAIN u.pending <=> Belongs(k, DOMAIN u.pending) = 1
    BY DEF Belongs
  <2>4. Belongs(k, u.reserved) = 1 <=>
          \/ HoldsShared(u.nextWb, k) = 1 \/ HoldsShared(u.dispatch, k) = 1
          \/ HoldsShared(u.pipe[1], k) = 1 \/ HoldsShared(u.pipe[2], k) = 1
          \/ HoldsShared(u.pipe[3], k) = 1
          \/ Belongs(k, DOMAIN u.pending) = 1
          \/ Cardinality(LoadsOf(u.collecting, k)) # 0
    BY <1>1, <1>2, TermsNatural DEF HeldAt
  <2> QED BY <2>1, <2>2, <2>3, <2>4
<1>5. \A m : HoldsShared(m, k) = 1 <=> m # None /\ m.path = "shared" /\ ~m.store /\ Key(m) = k
  BY DEF HoldsShared
<1>6. u.dispatch = None \/ u.dispatch \in Instructions
  BY <1>1, CoreFields
<1>7. Matches(u.pending, Outstanding(u), u.dispatch)
  BY DEF Sound
<1>8. ASSUME k \in u.reserved
      PROVE  \/ \E d \in InPipe(u) : ~d.store /\ Key(d) = k
             \/ \E m \in {u.nextWb} \ {None} : Key(m) = k
             \/ k \in DOMAIN u.pending
  <2>1. CASE LoadsOf(u.collecting, k) # {}
    <3>1. PICK x \in Copies(u.collecting) : ~x[1].store /\ Key(x[1]) = k
      BY <2>1 DEF LoadsOf
    <3>2. x[1] \in BagToSet(u.collecting)
      BY <3>1, CopiesIs DEF BagToSet
    <3> QED BY <3>1, <3>2, InPipeIs
  <2>2. CASE HoldsShared(u.nextWb, k) = 1
    BY <2>2, <1>5
  <2>3. CASE HoldsShared(u.dispatch, k) = 1
    BY <2>3, <1>5, InPipeIs
  <2>4. CASE HoldsShared(u.pipe[1], k) = 1
    BY <2>4, <1>5, InPipeIs
  <2>5. CASE HoldsShared(u.pipe[2], k) = 1
    BY <2>5, <1>5, InPipeIs
  <2>6. CASE HoldsShared(u.pipe[3], k) = 1
    BY <2>6, <1>5, InPipeIs
  <2> QED BY <1>4, <1>8, <2>1, <2>2, <2>3, <2>4, <2>5, <2>6
<1>9. ASSUME NEW d \in InPipe(u), ~d.store, Key(d) = k
      PROVE  k \in u.reserved
  <2>1. CASE d \in BagToSet(u.collecting)
    <3>1. <<d, 1>> \in Copies(u.collecting)
      BY <2>1, CollectedIs
    <3>2. <<d, 1>> \in LoadsOf(u.collecting, k)
      BY <1>9, <3>1 DEF LoadsOf
    <3> QED BY <1>4, <3>2
  <2>2. ASSUME NEW i \in 1 .. 3, d = u.pipe[i], d # None
        PROVE  k \in u.reserved
    <3>1. SharedLoad(d)
      BY <1>1, <2>2 DEF Kinds
    <3>2. HoldsShared(d, k) = 1
      BY <1>5, <1>9, <2>2, <3>1 DEF SharedLoad
    <3>3. d = u.pipe[1] \/ d = u.pipe[2] \/ d = u.pipe[3]
      BY <2>2
    <3> QED BY <1>4, <3>2, <3>3
  <2>3. CASE d = u.dispatch /\ d # None
    <3>1. CASE d.path = "shared"
      BY <1>4, <1>5, <1>9, <2>3, <3>1
    <3>2. CASE d.path # "shared"
      <4>1. Answered(d)
        BY <1>6, <1>9, <2>3, <3>2, InstructionAnswered
      <4>2. Loads(u.dispatch, k)
        BY <1>9, <2>3, <4>1 DEF Loads
      <4> QED BY <1>4, <1>7, <4>2 DEF Matches
    <3> QED BY <3>1, <3>2
  <2>4. 1 \in 1 .. 3 /\ 2 \in 1 .. 3 /\ 3 \in 1 .. 3
    OBVIOUS
  <2> QED BY <2>1, <2>2, <2>3, <2>4, InPipeIs
<1>10. ASSUME u.nextWb # None, Key(u.nextWb) = k
       PROVE  k \in u.reserved
  <2>1. CASE SharedLoad(u.nextWb)
    BY <1>4, <1>5, <1>10, <2>1 DEF SharedLoad
  <2>2. CASE u.nextWb \in Accesses
    <3>1. u.nextWb \in Outstanding(u)
      BY <1>1, <2>2, OutstandingIs
    <3>2. Away(Outstanding(u), k) # {}
      BY <1>10, <3>1 DEF Away
    <3> QED BY <1>4, <1>7, <3>2 DEF Matches
  <2> QED BY <1>1, <1>10, <2>1, <2>2 DEF Kinds
<1> QED BY <1>4, <1>8, <1>9, <1>10

LEMMA DrainedIs ==
  ASSUME NEW u, Sound(u), NEW w \in Warps, Drained(u, w)
  PROVE  /\ \A m \in InPipe(u) \cup Outstanding(u) \cup ToSet(u.fifo)
                     \cup ({u.nextWb} \ {None}) : m.warp # w
         /\ u.writes[w] = 0
         /\ \A r \in Regs : <<w, r>> \notin u.reserved
<1>1. /\ u \in CoreRecords /\ Kinds(u) /\ u.stores[w] = 0 /\ u.inPipe[w] = 0
      /\ \A r \in Regs : <<w, r>> \notin u.reserved
  BY DEF Sound, Drained
<1>2. u.fifo \in Seq(Accesses \cup Acks) /\ u.writes[w] \in Nat
  BY <1>1, CoreFields
<1>3. u.writes[w] = 0 /\ AcksOf(u.fifo, w) = {}
  <2>1. IsFiniteSet(AcksOf(u.fifo, w))
    <3>1. DOMAIN u.fifo = 1 .. Len(u.fifo) /\ Len(u.fifo) \in Nat
      BY <1>2
    <3>2. IsFiniteSet(DOMAIN u.fifo)
      BY <3>1, FS_Interval
    <3>3. AcksOf(u.fifo, w) \in SUBSET (DOMAIN u.fifo)
      BY DEF AcksOf
    <3> QED BY <3>2, <3>3, FS_Subset
  <2>2. u.stores[w] = u.writes[w] + Cardinality(AcksOf(u.fifo, w))
    BY DEF Sound, StoresCounted
  <2>3. Cardinality(AcksOf(u.fifo, w)) \in Nat
    BY <2>1, FS_CardinalityType
  <2>4. u.writes[w] = 0 /\ Cardinality(AcksOf(u.fifo, w)) = 0
    BY <1>1, <1>2, <2>2, <2>3
  <2> QED BY <2>1, <2>4, FS_EmptySet
<1>4. /\ CopiesOf(u.collecting, w) = {}
      /\ u.dispatch # None => u.dispatch.warp # w
      /\ u.pipe[1] # None => u.pipe[1].warp # w
      /\ u.pipe[2] # None => u.pipe[2].warp # w
      /\ u.pipe[3] # None => u.pipe[3].warp # w
  <2>1. IsFiniteSet(CopiesOf(u.collecting, w)) /\ Cardinality(CopiesOf(u.collecting, w)) \in Nat
    BY <1>1, CopiesFinite
  <2>2. u.inPipe[w] = Cardinality(CopiesOf(u.collecting, w)) + Named(u.dispatch, w)
                + Named(u.pipe[1], w) + Named(u.pipe[2], w) + Named(u.pipe[3], w)
    BY DEF Sound, PipeCounted
  <2>3. \A m : Named(m, w) \in {0, 1} /\ (Named(m, w) = 0 /\ m # None => m.warp # w)
    BY DEF Named
  <2>4. /\ Named(u.dispatch, w) \in {0, 1} /\ Named(u.pipe[1], w) \in {0, 1}
        /\ Named(u.pipe[2], w) \in {0, 1} /\ Named(u.pipe[3], w) \in {0, 1}
    BY <2>3
  <2>5. /\ Cardinality(CopiesOf(u.collecting, w)) = 0
        /\ Named(u.dispatch, w) = 0 /\ Named(u.pipe[1], w) = 0
        /\ Named(u.pipe[2], w) = 0 /\ Named(u.pipe[3], w) = 0
    BY <1>1, <2>1, <2>2, <2>4
  <2> QED BY <2>1, <2>3, <2>5, FS_EmptySet
<1>5. ASSUME NEW m \in InPipe(u) PROVE m.warp # w
  <2>1. CASE m \in BagToSet(u.collecting)
    <3>1. <<m, 1>> \in Copies(u.collecting)
      BY <2>1, CollectedIs
    <3>2. <<m, 1>> \notin CopiesOf(u.collecting, w)
      BY <1>4
    <3> QED BY <3>1, <3>2 DEF CopiesOf
  <2> QED BY <1>4, <2>1, InPipeIs
<1>6. ASSUME NEW a \in Outstanding(u) PROVE a.warp # w
  <2>1. a \in Accesses
    BY <1>1, OutstandingIs
  <2>2. Key(a) \in Keys /\ a.reg \in Regs
    BY <2>1, AccessAnswered DEF Accesses
  <2>3. Away(Outstanding(u), Key(a)) # {}
    BY DEF Away
  <2>4. Key(a) \in DOMAIN u.pending
    BY <2>2, <2>3 DEF Sound, Matches
  <2>5. Key(a) \in u.reserved
    BY <2>2, <2>4, ReservedIs
  <2>6. Key(a) = <<a.warp, a.reg>>
    BY DEF Key
  <2> QED BY <1>1, <2>2, <2>5, <2>6
<1>7. ASSUME NEW m \in ToSet(u.fifo) PROVE m.warp # w
  <2>1. PICK i \in DOMAIN u.fifo : u.fifo[i] = m
    BY DEF ToSet
  <2>2. CASE m.path = "ack"
    BY <1>3, <2>1, <2>2 DEF AcksOf
  <2>3. CASE m.path # "ack"
    <3>1. m \in Requests(u)
      BY <1>1, <2>1, <2>3, RequestsAre
    <3> QED BY <1>1, <1>6, <3>1, OutstandingIs
  <2> QED BY <2>2, <2>3
<1>8. ASSUME u.nextWb # None PROVE u.nextWb.warp # w
  <2>1. PICK m : m = u.nextWb
    OBVIOUS
  <2>2. m \in Accesses \/ m \in Instructions
    BY <1>1, <1>8, <2>1, CoreFields
  <2>3. m.warp \in Warps /\ m.reg \in Regs
    BY <2>2 DEF Accesses, Instructions
  <2>4. Key(m) = <<m.warp, m.reg>> /\ Key(m) \in Keys
    BY <2>3 DEF Key, Keys
  <2>5. Key(m) \in u.reserved
    BY <1>8, <2>1, <2>4, ReservedIs
  <2> QED BY <1>1, <2>1, <2>3, <2>4, <2>5
<1> QED BY <1>1, <1>3, <1>5, <1>6, <1>7, <1>8

\* The assertion of ldst_unit::writeback() and the counters of a warp: every
\* instruction and every access is counted once, from issue to its end.
THEOREM AllCounted == Spec => []CountsMatch
<1>1. ASSUME IInv PROVE CountsMatch
  <2>1. \A c \in Cores : Sound(core[c])
    BY <1>1 DEF IInv
  <2>2. PendingMatches
    <3>1. ASSUME NEW c \in Cores, NEW k \in Keys
          PROVE  MatchesAt(core[c].pending, Outstanding(core[c]), core[c].dispatch, k)
      BY <2>1 DEF Sound, Matches, MatchesAt
    <3> QED BY <3>1 DEF PendingMatches, MatchesAt, Away, Loads
  <2>3. ASSUME NEW c \in Cores, NEW w \in Warps
        PROVE  /\ core[c].stores[w] = core[c].writes[w] + Cardinality(AcksOf(core[c].fifo, w))
               /\ core[c].inPipe[w] = Cardinality(CopiesOf(core[c].collecting, w))
                    + Named(core[c].dispatch, w) + Named(core[c].pipe[1], w)
                    + Named(core[c].pipe[2], w) + Named(core[c].pipe[3], w)
    BY <2>1 DEF Sound, StoresCounted, PipeCounted
  <2> QED BY <2>2, <2>3 DEF CountsMatch
<1> QED BY <1>1, Inductive, PTL

\* checkCollision(): a register is reserved exactly while a load of it is
\* between issue and its last write-back, in whatever stage it is.
THEOREM RegistersProtected == Spec => []ReservedUntilWritten
<1>1. ASSUME IInv PROVE ReservedUntilWritten
  <2>1. \A c \in Cores : Sound(core[c])
    BY <1>1 DEF IInv
  <2>2. ASSUME NEW c \in Cores, NEW k \in Keys
        PROVE  k \in core[c].reserved <=>
                 \/ \E d \in InPipe(core[c]) : ~d.store /\ Key(d) = k
                 \/ \E m \in {core[c].nextWb} \ {None} : Key(m) = k
                 \/ k \in DOMAIN core[c].pending
    BY <2>1, ReservedIs
  <2> QED BY <2>2 DEF ReservedUntilWritten
<1> QED BY <1>1, Inductive, PTL

\* fetch() gives up a warp only when no instruction, access, answer,
\* acknowledgement or reservation of it is left in the core or in the memory.
THEOREM RetiredDrained == Spec => []RetiredIsDrained
<1>1. ASSUME IInv PROVE RetiredIsDrained
  <2>1. ASSUME NEW c \in Cores, NEW w \in Warps, phase[c][w] = "idle"
        PROVE  /\ \A m \in InPipe(core[c]) \cup Outstanding(core[c]) \cup ToSet(core[c].fifo)
                           \cup ({core[c].nextWb} \ {None}) : m.warp # w
               /\ core[c].writes[w] = 0
               /\ \A r \in Regs : <<w, r>> \notin core[c].reserved
    <3>1. Sound(core[c]) /\ Drained(core[c], w)
      BY <1>1, <2>1 DEF IInv
    <3> QED BY <3>1, DrainedIs
  <2> QED BY <2>1 DEF RetiredIsDrained
<1> QED BY <1>1, Inductive, PTL

-----------------------------------------------------------------------------
(* The decompressor of a cluster with one core.                            *)

UnitStages == [core : Cores, access : Accesses] \cup {None}

\* A pipeline of Depth stages.
Stages(s) == s \in Seq(UnitStages) /\ Len(s) = Depth

Vacant(s) == Stages(s) /\ \A i \in 1 .. Depth : s[i] = None

\* What is in the decompressor is the present access of core c, once.
Owned(s, c, d, m) ==
  /\ Stages(s)
  /\ \A i \in 1 .. Depth : s[i] # None =>
       /\ \A j \in 1 .. Depth : s[j] # None => i = j
       /\ s[i] = [core |-> c, access |-> AccessOf(d)]
       /\ m /\ d # None /\ d.path = "global" /\ ~d.store /\ d.fired /\ d.blocks # <<>>

UnitInv(c) == Owned(unit, c, core[c].dispatch, mode)

LEMMA VacantOwned ==
  ASSUME NEW s, Vacant(s), NEW c, NEW d, NEW m
  PROVE  Owned(s, c, d, m)
BY DEF Vacant, Owned

LEMMA OwnedVacant ==
  ASSUME NEW s, NEW c, NEW d, NEW m, Owned(s, c, d, m),
         ~m \/ d = None \/ d.path # "global" \/ d.store \/ ~d.fired \/ d.blocks = <<>>
  PROVE  Vacant(s)
BY DEF Vacant, Owned

LEMMA ShiftedIs ==
  ASSUME NEW s, Stages(s)
  PROVE  /\ Stages(Shifted(s)) /\ Last(s) = s[Depth] /\ Shifted(s)[1] = None
         /\ \A i \in 1 .. Depth : i # 1 => i - 1 \in 1 .. Depth /\ Shifted(s)[i] = s[i - 1]
<1>1. Depth \in Nat \ {0}
  BY LoadStoreAssumption
<1>2. PICK f : f = SubSeq(s, 1, Len(s) - 1)
  OBVIOUS
<1>3. /\ f \in Seq(UnitStages) /\ Len(f) = Depth - 1
      /\ \A i \in 1 .. Depth - 1 : f[i] = s[i]
  BY <1>1, <1>2 DEF Stages
<1>4. None \in UnitStages
  BY DEF UnitStages
<1>5. PICK t : t = <<None>> \o f
  OBVIOUS
<1>6. /\ t \in Seq(UnitStages) /\ Len(t) = Depth /\ t[1] = None
      /\ \A i \in 1 .. Depth : i # 1 => t[i] = f[i - 1]
  <2> HIDE <1>2
  <2> QED BY <1>1, <1>3, <1>4, <1>5
<1>7. Shifted(s) = t /\ Last(s) = s[Depth]
  BY <1>2, <1>5 DEF Shifted, Front, Last, Stages
<1>8. \A i \in 1 .. Depth : i # 1 => i - 1 \in 1 .. Depth - 1 /\ i - 1 \in 1 .. Depth
  BY <1>1
<1>9. \A i \in 1 .. Depth : i # 1 => t[i] = s[i - 1]
  BY <1>3, <1>6, <1>8
<1> QED BY <1>6, <1>7, <1>8, <1>9 DEF Stages

\* The decompressor moves on.
LEMMA ShiftedOwned ==
  ASSUME NEW s, NEW c, NEW d, NEW m, Owned(s, c, d, m)
  PROVE  /\ Last(s) # None => Vacant(Shifted(s))
         /\ Vacant(s) => Vacant(Shifted(s))
         /\ Last(s) = None => Owned(Shifted(s), c, d, m)
<1>1. Stages(s)
  BY DEF Owned
<1>2. Depth \in Nat \ {0}
  BY LoadStoreAssumption
<1>3. Last(s) = s[Depth] /\ Depth \in 1 .. Depth
  BY <1>1, <1>2, ShiftedIs
<1>4. PICK t : t = Shifted(s)
  OBVIOUS
<1>5. /\ Stages(t) /\ t[1] = None
      /\ \A i \in 1 .. Depth : i # 1 => i - 1 \in 1 .. Depth /\ t[i] = s[i - 1]
  BY <1>1, <1>4, ShiftedIs
<1>6. \A i \in 1 .. Depth : t[i] # None => i - 1 \in 1 .. Depth /\ t[i] = s[i - 1] /\ i - 1 # Depth
  BY <1>2, <1>5
<1>7. ASSUME Last(s) # None PROVE Vacant(t)
  <2>1. \A i \in 1 .. Depth : s[i] # None => i = Depth
    BY <1>3, <1>7 DEF Owned
  <2> QED BY <1>5, <1>6, <2>1 DEF Vacant
<1>8. ASSUME Vacant(s) PROVE Vacant(t)
  BY <1>5, <1>6, <1>8 DEF Vacant
<1>9. Owned(t, c, d, m)
  <2>1. ASSUME NEW i \in 1 .. Depth, t[i] # None
        PROVE  /\ \A j \in 1 .. Depth : t[j] # None => i = j
               /\ t[i] = [core |-> c, access |-> AccessOf(d)]
               /\ m /\ d # None /\ d.path = "global" /\ ~d.store /\ d.fired /\ d.blocks # <<>>
    <3>1. i - 1 \in 1 .. Depth /\ t[i] = s[i - 1]
      BY <1>6, <2>1
    <3>2. \A j \in 1 .. Depth : s[j] # None => i - 1 = j
      BY <2>1, <3>1 DEF Owned
    <3>3. ASSUME NEW j \in 1 .. Depth, t[j] # None PROVE i = j
      <4>1. j - 1 \in 1 .. Depth /\ s[j - 1] # None
        BY <1>6, <3>3
      <4> QED BY <3>2, <4>1
    <3>4. /\ s[i - 1] = [core |-> c, access |-> AccessOf(d)]
          /\ m /\ d # None /\ d.path = "global" /\ ~d.store /\ d.fired /\ d.blocks # <<>>
      BY <2>1, <3>1 DEF Owned
    <3> QED BY <3>1, <3>3, <3>4
  <2> QED BY <1>5, <2>1 DEF Owned
<1> QED BY <1>4, <1>7, <1>8, <1>9

LEMMA AccessOfIs ==
  ASSUME NEW d \in Instructions, d.blocks # <<>>, d.path # "shared"
  PROVE  AccessOf(d) \in Accesses
<1>1. d.warp \in Warps /\ d.reg \in Regs /\ d.path \in Paths /\ d.blocks \in Seq(Blocks)
  BY DEF Instructions
<1>2. Last(d.blocks) \in Blocks
  <2>1. PICK s : s = d.blocks
    OBVIOUS
  <2>2. s \in Seq(Blocks) /\ s # <<>>
    BY <1>1, <2>1
  <2>3. Len(s) \in 1 .. Len(s)
    BY <2>2
  <2>4. Last(s) \in Blocks
    BY <2>2, <2>3 DEF Last
  <2> QED BY <2>1, <2>4
<1> QED BY <1>1, <1>2 DEF AccessOf, Accesses

StartsWith(t, r, q) == t = [q EXCEPT ![1] = r]

LEMMA FirstReplaced ==
  ASSUME NEW S, NEW q \in Seq(S), Len(q) \in Nat \ {0}, NEW r \in S, NEW t,
         StartsWith(t, r, q)
  PROVE  /\ t \in Seq(S) /\ Len(t) = Len(q) /\ t[1] = r
         /\ \A i \in 1 .. Len(q) : i # 1 => t[i] = q[i]
BY DEF StartsWith

Entered(t, s, c, d) == t = [Shifted(s) EXCEPT ![1] = [core |-> c, access |-> AccessOf(d)]]

\* A hit enters the decompressor, which is empty.
LEMMA EnteredOwned ==
  ASSUME NEW s, Vacant(s), NEW c \in Cores, NEW d \in Instructions, d.path = "global", ~d.store,
         d.blocks # <<>>, NEW e, e = [d EXCEPT !.fired = TRUE], NEW t,
         Entered(t, s, c, d)
  PROVE  Owned(t, c, e, TRUE)
<1>1. Depth \in Nat \ {0}
  BY LoadStoreAssumption
<1>2. Vacant(Shifted(s))
  BY VacantOwned, ShiftedOwned
<1>3. PICK r, a : a = AccessOf(d) /\ r = [core |-> c, access |-> a]
  OBVIOUS
<1>4. e # None /\ e.path = "global" /\ ~e.store /\ e.fired /\ e.blocks # <<>>
  <2>1. e.path = d.path /\ e.store = d.store /\ e.fired = TRUE /\ e.blocks = d.blocks
    BY DEF Instructions
  <2>2. e \in Instructions
    BY DEF Instructions
  <2> QED BY <2>1, <2>2, NoneIsNone
<1>5. AccessOf(e) = a
  BY <1>3 DEF AccessOf, Instructions
<1>6. r \in UnitStages
  <2>1. a \in Accesses
    BY <1>3, AccessOfIs
  <2> QED BY <1>3, <2>1 DEF UnitStages
<1>7. t = [Shifted(s) EXCEPT ![1] = r]
  BY <1>3 DEF Entered
<1>8. PICK q : q = Shifted(s)
  OBVIOUS
<1>9. q \in Seq(UnitStages) /\ Len(q) = Depth /\ \A i \in 1 .. Depth : q[i] = None
  BY <1>2, <1>8 DEF Vacant, Stages
<1>10. /\ t \in Seq(UnitStages) /\ Len(t) = Depth /\ t[1] = r
       /\ \A i \in 1 .. Depth : i # 1 => t[i] = None
  <2>1. StartsWith(t, r, q)
    BY <1>7, <1>8, Zenon DEF StartsWith
  <2>2. Len(q) \in Nat \ {0}
    BY <1>1, <1>9
  <2> HIDE <1>3, <1>7, <1>8
  <2>3. /\ t \in Seq(UnitStages) /\ Len(t) = Len(q) /\ t[1] = r
        /\ \A i \in 1 .. Len(q) : i # 1 => t[i] = q[i]
    BY <1>6, <1>9, <2>1, <2>2, FirstReplaced
  <2> QED BY <1>9, <2>3
<1>11. \A i \in 1 .. Depth : t[i] # None => i = 1
  BY <1>10
<1> QED BY <1>3, <1>4, <1>5, <1>10, <1>11 DEF Owned, Stages

\* A cycle of the core whose decompressor it is.
LEMMA AccessedOwned ==
  ASSUME NEW c \in Cores, NEW u, Sound(u), NEW s, Owned(s, c, u.dispatch, mode), NEW port,
         NEW x \in Accessed(c, u, s, port)
  PROVE  /\ Owned(x[2], c, x[1].dispatch, mode)
         /\ Vacant(x[2]) \/ x[1].dispatch.blocks # <<>>
<1>1. ASSUME NEW t, NEW d, Owned(t, c, d, mode)
      PROVE  Vacant(t) \/ d.blocks # <<>>
  BY <1>1, OwnedVacant
<1>2. CASE x = <<u, s>>
  BY <1>1, <1>2
<1>3. ASSUME NEW v, x = <<v, s>>, Plainly(u, v), u.dispatch # None, u.dispatch.blocks # <<>>
      PROVE  Vacant(s)
  <2>1. ~ mode \/ u.dispatch.path # "global" \/ u.dispatch.store
    BY <1>3 DEF Plainly
  <2> QED BY <2>1, OwnedVacant
<1>4. CASE /\ u.dispatch # None /\ u.dispatch.blocks # <<>>
           /\ u.dispatch.path = "global" /\ ~ u.dispatch.store /\ mode
           /\ x \in Compressed(c, u, s)
  <2>1. u.dispatch \in Instructions
    BY <1>4 DEF Sound, Kinds, Legal
  <2>2. CASE Last(s) # None /\ x = <<Hit(u), Shifted(s)>>
    <3>1. Vacant(Shifted(s))
      BY <2>2, ShiftedOwned
    <3> QED BY <2>2, <3>1, VacantOwned
  <2>3. CASE Last(s) = None /\ u.dispatch.fired /\ x = <<u, Shifted(s)>>
    <3>1. Owned(Shifted(s), c, u.dispatch, mode)
      BY <2>3, ShiftedOwned
    <3> QED BY <1>1, <2>3, <3>1
  <2>4. CASE Last(s) = None /\ ~ u.dispatch.fired
    <3>1. Vacant(s)
      BY <2>4, OwnedVacant
    <3>2. Vacant(Shifted(s))
      BY <3>1, ShiftedOwned
    <3>3. ASSUME NEW v, x = <<v, Shifted(s)>>
          PROVE  /\ Owned(x[2], c, x[1].dispatch, mode)
                 /\ Vacant(x[2]) \/ x[1].dispatch.blocks # <<>>
      BY <3>2, <3>3, VacantOwned
    <3>4. PICK f, t : /\ f = [u EXCEPT !.dispatch.fired = TRUE]
                      /\ t = [Shifted(s) EXCEPT
                                ![1] = [core |-> c, access |-> AccessOf(u.dispatch)]]
      OBVIOUS
    <3>5. \/ \E v : x = <<v, Shifted(s)>>
          \/ x = <<f, t>>
      <4>1. \/ \E v \in Miss(u) : x = <<v, Shifted(s)>>
            \/ x = <<[u EXCEPT !.dispatch.fired = TRUE],
                     [Shifted(s) EXCEPT
                        ![1] = [core |-> c, access |-> AccessOf(u.dispatch)]]>>
        <5> HIDE <3>4
        <5> QED BY <1>4, <2>4, CompressedCases
      <4> QED BY <3>4, <4>1, Zenon
    <3>6. f.dispatch = [u.dispatch EXCEPT !.fired = TRUE] /\ f.dispatch.blocks = u.dispatch.blocks
      <4>1. u \in CoreRecords
        BY DEF Sound
      <4>2. PICK d, e : d = u.dispatch /\ e = [d EXCEPT !.fired = TRUE]
        OBVIOUS
      <4>3. e.blocks = d.blocks
        BY <2>1, <4>2 DEF Instructions
      <4>4. f = [u EXCEPT !.dispatch = e]
        BY <3>4, <4>2
      <4>5. f.dispatch = e
        <5> HIDE <3>4, <4>2
        <5> QED BY <4>1, <4>4 DEF CoreRecords
      <4> QED BY <4>2, <4>3, <4>5
    <3>7. Owned(t, c, f.dispatch, TRUE)
      <4>1. Entered(t, s, c, u.dispatch)
        BY <3>4 DEF Entered
      <4>2. f.dispatch = [u.dispatch EXCEPT !.fired = TRUE]
        BY <3>6
      <4> HIDE <3>4
      <4> QED BY <1>4, <2>1, <3>1, <4>1, <4>2, EnteredOwned
    <3>8. Owned(t, c, f.dispatch, mode)
      BY <1>4, <3>7 DEF Owned
    <3> HIDE <3>4
    <3>9. ASSUME x = <<f, t>>
          PROVE  /\ Owned(x[2], c, x[1].dispatch, mode)
                 /\ Vacant(x[2]) \/ x[1].dispatch.blocks # <<>>
      BY <1>4, <3>6, <3>8, <3>9
    <3> QED BY <3>3, <3>5, <3>9
  <2> QED BY <1>4, <2>2, <2>3, <2>4, CompressedCases
<1>5. ASSUME NEW v, x = <<v, s>>, Vacant(s)
      PROVE  /\ Owned(x[2], c, x[1].dispatch, mode)
             /\ Vacant(x[2]) \/ x[1].dispatch.blocks # <<>>
  BY <1>5, VacantOwned
<1> QED BY <1>2, <1>3, <1>4, <1>5, AccessedCases

LEMMA LdstOwned ==
  ASSUME IInv, NEW c \in Cores, UnitInv(c), LdstCycle(c)
  PROVE  UnitInv(c)'
<1>1. PICK bank, fill, port, written :
           /\ written = IF bank /\ core[c].nextWb # None THEN Written(core[c]) ELSE core[c]
           /\ \E handed, answered :
                /\ handed \in NextWriteback(written) /\ answered = Respond(MovePipe(handed), fill)
                /\ \E x \in Accessed(c, answered, unit, port) :
                     /\ core' = [core EXCEPT ![c] = Leave(x[1], port)]
                     /\ unit' = x[2]
                     /\ UNCHANGED <<compression, mode, phase, issued>>
  BY CycleIs, Zenon
<1>2. PICK handed, answered :
                /\ handed \in NextWriteback(written) /\ answered = Respond(MovePipe(handed), fill)
                /\ \E x \in Accessed(c, answered, unit, port) :
                     /\ core' = [core EXCEPT ![c] = Leave(x[1], port)]
                     /\ unit' = x[2]
                     /\ UNCHANGED <<compression, mode, phase, issued>>
  BY <1>1, Zenon
<1>3. PICK x \in Accessed(c, answered, unit, port) :
                     /\ core' = [core EXCEPT ![c] = Leave(x[1], port)]
                     /\ unit' = x[2]
                     /\ UNCHANGED <<compression, mode, phase, issued>>
  BY <1>2, Zenon
<1>4. Sound(core[c]) /\ Between(core[c]) /\ core \in [Cores -> CoreRecords]
  BY DEF IInv
<1>5. written = IF bank /\ core[c].nextWb # None THEN Written(core[c]) ELSE core[c]
  BY <1>1
<1>6. handed \in NextWriteback(written) /\ answered = Respond(MovePipe(handed), fill)
  BY <1>2
<1>7. Sound(answered) /\ answered.dispatch = core[c].dispatch
  BY <1>4, <1>5, <1>6, CycleKeeps
<1>8. /\ Owned(x[2], c, x[1].dispatch, mode)
      /\ Vacant(x[2]) \/ x[1].dispatch.blocks # <<>>
  <2>1. Owned(unit, c, answered.dispatch, mode)
    BY <1>7 DEF UnitInv
  <2> QED BY <1>7, <2>1, AccessedOwned
<1>9. Sound(x[1])
  BY <1>7, AccessedKeeps DEF Keeps
<1>10. PICK v : v = Leave(x[1], port)
  OBVIOUS
<1>11. Owned(x[2], c, v.dispatch, mode)
  <2>1. CASE Vacant(x[2])
    BY <2>1, VacantOwned
  <2>2. CASE x[1].dispatch.blocks # <<>>
    <3>1. v = x[1]
      BY <1>9, <1>10, <2>2, LeaveKeeps
    <3> QED BY <1>8, <3>1
  <2> QED BY <1>8, <2>1, <2>2
<1>12. core' = [core EXCEPT ![c] = Leave(x[1], port)] /\ unit' = x[2] /\ mode' = mode
  BY <1>3, Zenon
<1>13. core'[c] = v
  BY <1>4, <1>10, <1>12
<1> QED BY <1>11, <1>12, <1>13 DEF UnitInv

LEMMA LaunchOwned ==
  ASSUME IInv, NEW c \in Cores, Cores = {c}, UnitInv(c), NEW w \in Warps, Launch(c, w)
  PROVE  UnitInv(c)'
<1>1. /\ mode' = mode \/ \A v \in Warps : phase[c][v] = "idle"
      /\ UNCHANGED <<compression, core, unit, issued>>
  BY LaunchIs
<1>2. CASE mode' = mode
  BY <1>1, <1>2 DEF UnitInv
<1>3. CASE \A v \in Warps : phase[c][v] = "idle"
  <2>1. Sound(core[c]) /\ \A v \in Warps : Drained(core[c], v)
    BY <1>3 DEF IInv
  <2>2. core[c].dispatch = None
    <3>1. SUFFICES ASSUME core[c].dispatch # None PROVE FALSE
      OBVIOUS
    <3>2. core[c].dispatch \in InPipe(core[c])
      BY <3>1, InPipeIs
    <3>3. core[c].dispatch \in Instructions
      BY <2>1, <3>1 DEF Sound, Kinds, Legal
    <3>4. core[c].dispatch.warp \in Warps
      BY <3>3, InstructionAnswered
    <3> QED BY <2>1, <3>2, <3>4, DrainedIs
  <2>3. Vacant(unit)
    BY <2>2, OwnedVacant DEF UnitInv
  <2> QED BY <1>1, <2>3, VacantOwned DEF UnitInv
<1> QED BY <1>1, <1>2, <1>3

LEMMA NextOwned ==
  ASSUME IInv, NEW c \in Cores, Cores = {c}, UnitInv(c), [Next]_vars
  PROVE  UnitInv(c)'
<1>1. CASE SwitchOn
  <2>1. mode' = TRUE /\ ~mode /\ UNCHANGED <<core, unit>>
    BY <1>1 DEF SwitchOn
  <2>2. Vacant(unit)
    BY <2>1, OwnedVacant DEF UnitInv
  <2> QED BY <2>1, <2>2, VacantOwned DEF UnitInv
<1>2. ASSUME NEW w \in Warps, Launch(c, w) PROVE UnitInv(c)'
  BY <1>2, LaunchOwned
<1>3. ASSUME core'[c].dispatch = core[c].dispatch, mode' = mode, unit' = unit PROVE UnitInv(c)'
  BY <1>3 DEF UnitInv
<1>4. ASSUME NEW w \in Warps, Issue(c, w) PROVE UnitInv(c)'
  BY <1>3, <1>4, IssueKeeps DEF Issue
<1>5. ASSUME NEW w \in Warps, Exit(c, w) \/ Retire(c, w) PROVE UnitInv(c)'
  BY <1>3, <1>5 DEF Exit, Retire
<1>6. ASSUME IssueToUnit(c) PROVE UnitInv(c)'
  <2>1. core[c].dispatch = None
    BY <1>6, DispatchKeeps
  <2>2. mode' = mode /\ unit' = unit
    BY <1>6 DEF IssueToUnit
  <2>3. Vacant(unit)
    BY <2>1, OwnedVacant DEF UnitInv
  <2> QED BY <2>2, <2>3, VacantOwned DEF UnitInv
<1>7. ASSUME LdstCycle(c) PROVE UnitInv(c)'
  BY <1>7, LdstOwned
<1>8. ASSUME Reply(c) PROVE UnitInv(c)'
  <2>1. core'[c].dispatch = core[c].dispatch
    BY <1>8, ReplyKeeps
  <2>2. mode' = mode /\ unit' = unit
    BY <1>8 DEF Reply
  <2> QED BY <1>3, <2>1, <2>2
<1>9. CASE UNCHANGED vars
  BY <1>9 DEF vars, UnitInv
<1>10. Next => \/ SwitchOn
               \/ \E w \in Warps : Launch(c, w) \/ Issue(c, w) \/ Exit(c, w) \/ Retire(c, w)
               \/ IssueToUnit(c) \/ LdstCycle(c) \/ Reply(c)
  BY DEF Next
<1> QED BY <1>1, <1>2, <1>4, <1>5, <1>6, <1>7, <1>8, <1>9, <1>10, Zenon

LEMMA InitOwned ==
  ASSUME NEW c \in Cores, Init
  PROVE  UnitInv(c)
<1>1. unit = [i \in 1 .. Depth |-> None] /\ Depth \in Nat
  BY LoadStoreAssumption DEF Init
<1>2. None \in UnitStages
  BY DEF UnitStages
<1>3. unit \in Seq(UnitStages) /\ Len(unit) = Depth /\ \A i \in 1 .. Depth : unit[i] = None
  BY <1>1, <1>2
<1> QED BY <1>3, VacantOwned DEF UnitInv, Vacant, Stages

\* What leaves the decompressor of a cluster with one core answers the access
\* it belongs to: nothing else is in it, and that once.
THEOREM UnitAnswersOwn ==
  ASSUME NEW CONSTANT c, Cores = {c}
  PROVE  Spec => []UnitHoldsOwn
<1>1. c \in Cores
  OBVIOUS
<1>2. Init => UnitInv(c)
  BY <1>1, InitOwned
<1>3. IInv /\ UnitInv(c) /\ [Next]_vars => UnitInv(c)'
  BY <1>1, NextOwned
<1>4. ASSUME UnitInv(c) PROVE UnitHoldsOwn
  <2>1. PICK S : S = {i \in 1 .. Depth : unit[i] # None}
    OBVIOUS
  <2>2. Cardinality(S) <= 1
    <3>1. \A i, j \in S : i = j
      BY <1>4, <2>1 DEF UnitInv, Owned
    <3>2. CASE S = {}
      <4>1. Cardinality(S) = 0
        BY <3>2, FS_EmptySet
      <4> QED BY <4>1
    <3>3. CASE S # {}
      <4>1. PICK i : i \in S
        BY <3>3
      <4>2. S = {i}
        BY <3>1, <4>1
      <4>3. Cardinality(S) = 1
        BY <4>2, FS_Singleton
      <4> QED BY <4>3
    <3> QED BY <3>2, <3>3
  <2>3. ASSUME NEW i \in S
        PROVE  LET d == core[unit[i].core].dispatch IN
                 d # None /\ d.fired /\ d.blocks # <<>> /\ AccessOf(d) = unit[i].access
    <3>1. PICK d : d = core[c].dispatch
      OBVIOUS
    <3>2. /\ unit[i] = [core |-> c, access |-> AccessOf(d)]
          /\ d # None /\ d.fired /\ d.blocks # <<>>
      BY <1>4, <2>1, <2>3, <3>1 DEF UnitInv, Owned
    <3>3. unit[i].core = c /\ unit[i].access = AccessOf(d)
      BY <3>2
    <3> QED BY <3>1, <3>2, <3>3
  <2> QED BY <2>1, <2>2, <2>3 DEF UnitHoldsOwn
<1>5. Spec => []IInv
  BY Inductive
<1> QED BY <1>2, <1>3, <1>4, <1>5, PTL DEF Spec
=============================================================================
